---- MODULE Spec2Model ----
(***************************************************************************)
(* A model of the Zendesk scraper's HTTP stack:                            *)
(*   - RateLimiter.wait_if_needed, the sliding-window throttle             *)
(*     (src/src/utils/rate_limiter.py);                                    *)
(*   - APIRateLimiter.__call__ / limit_request, the retry wrapper, and     *)
(*     ZendeskClient._make_request / get (src/src/zendesk_client.py);      *)
(*   - ZendeskClient.get_paginated, the paginator;                         *)
(*   - the data collectors built on the client                             *)
(*     (src/src/data_collectors/*.py): collect_all with its enrichment     *)
(*     lookups and caches, and TicketsCollector.get_statistics.            *)
(*   - the `all` command of src/main.py, which runs the collectors one     *)
(*     after the other.                                                    *)
(* Each component has its own specification (SpecLimiter, SpecRetry,       *)
(* SpecPaginate, SpecCollect, SpecAll); the variables of the other         *)
(* components stay at rest.                                                *)
(***************************************************************************)
EXTENDS Integers, Sequences, FiniteSets, TLC

VARIABLES
    \* ---- RateLimiter (rate_limiter.py:13-45)
    requests_per_minute,  \* self.requests_per_minute
    request_times,        \* self.request_times, a deque of timestamps (seconds)
    lock,                 \* self.lock: 0 when free, else the thread holding it
    clock,                \* the wall clock, datetime.now(), in seconds
    lpc,                  \* per thread: position inside wait_if_needed
    now,                  \* per thread: the local `now` of the call in progress
    wake,                 \* per thread: the earliest time time.sleep returns
    seen,                 \* per thread: what the call in progress saw (history)
    calls,                \* history: one record per returned call, in return order
    \* ---- APIRateLimiter / ZendeskClient._make_request / get
    retry_attempts,       \* self.retry_attempts (rate_limiting.retry_attempts)
    wrapped,              \* the decorated function: "_make_request" or a plain "callable"
    decorator,            \* the decorator applied: "__call__" or "limit_request"
    rpc,                  \* position of the call in progress
    attempt_number,       \* tenacity's retry_state.attempt_number
    func_calls,           \* invocations of the decorated function
    net_calls,            \* invocations of session.request
    throttle_calls,       \* invocations of RateLimiter.wait_if_needed
    net_log,              \* history: what session.request did on each invocation
    outcomes,             \* history: what the decorated function did on each invocation
    sleeps,               \* history: every time.sleep of the wrapper and of tenacity
    delivered,            \* what the decorated call gave its caller
    get_result,           \* what ZendeskClient.get gave its caller
    \* ---- ZendeskClient.get_paginated and the server it reads
    pages,                \* the server's listing: the page bodies, in order
    url_form,             \* how the server writes next_page: "abs" or "rel"
    params,               \* the caller's params argument
    url,                  \* the local url
    request_params,       \* the local request_params
    ppc,                  \* position of the generator
    demanded,             \* the consumer has asked for the next record
    response_data,        \* the page body being read
    item_idx,             \* index of the next element of the page to yield
    yielded,              \* history: the records yielded
    requests,             \* history: the requests sent to the server
    \* ---- the data collectors (data_collectors/*.py)
    collector,            \* the collector class of the run
    args,                 \* the arguments of collect_all
    listing,              \* the server's primary listing(s): per kind, the pages
    phase,                \* index of the kind being collected (knowledge base: 1..3)
    cpc,                  \* position of collect_all
    page,                 \* number of the primary page being read (0: none yet)
    idx,                  \* number of records of that page already yielded
    current,              \* the record being enriched
    derived,              \* the keys enrichment has added to it so far
    todo,                 \* the lookups its enrichment still has to make
    caches,               \* the collector's *_cache dictionaries
    collected,            \* the local list / dict that collect_all fills
    returned,             \* what collect_all returned (the result being built)
    lookups,              \* history: every request sent, in order
    resolutions,          \* history: every resolution of a related id
    listed,               \* history: the records the primary listing yielded
    stats,                \* what get_statistics returned
    \* ---- the `all` command (main.py:277-362)
    all_data              \* history: per collect_all of the run, what came back

limVars == <<requests_per_minute, request_times, lock, clock, lpc, now, wake, seen, calls>>

retryVars == <<retry_attempts, wrapped, decorator, rpc, attempt_number, func_calls,
               net_calls, throttle_calls, net_log, outcomes, sleeps, delivered,
               get_result>>

pagVars == <<pages, url_form, params, url, request_params, ppc, demanded,
             response_data, item_idx, yielded, requests>>

collVars == <<collector, args, listing, phase, cpc, page, idx, current, derived, todo,
              caches, collected, returned, lookups, resolutions, listed, stats,
              all_data>>

vars == <<limVars, retryVars, pagVars, collVars>>

\* ------------------------------------------------------------------ bounds
\* Largest requests_per_minute tried.
MaxLimit == 2
\* Number of threads sharing one RateLimiter.
NumThreads == 2
\* Number of wait_if_needed calls followed.
MaxCalls == 3
\* The clock advances in steps of this many seconds.
TickSeconds == 20
\* Number of clock steps followed.
MaxTicks == 6
\* Largest retry_attempts tried.
MaxRetryAttempts == 5
\* Largest number of pages of a listing.
MaxPages == 3
\* Largest number of records of a collector's primary listing.
MaxRecords == 2
\* Largest number of requests of one collector run that fail.
MaxFailures == 1
\* Largest number of records of a primary listing in a run of all the
\* collectors.
MaxAllRecords == 1

\* ------------------------------------------------------- program constants
\* timedelta(minutes=1), in seconds.
Window == 60
\* headers.get('Retry-After', 60): the wait when the header is absent.
DefaultRetryAfter == 60
\* wait_exponential(multiplier=1, min=4, max=10).
WaitMultiplier == 1
WaitMin == 4
WaitMax == 10

Threads == 1..NumThreads

None == "None"

\* The head of an empty queue: no timestamp.
NoTime == 0 - 1

\* ------------------------------------------------------------ RateLimiter

\* rate_limiter.py:33-34: pop from the left while the head is older than a minute.
RECURSIVE Evict(_, _)
Evict(q, t) ==
    IF q # <<>> /\ t - Head(q) > Window THEN Evict(Tail(q), t) ELSE q

\* A plausible slip: the limit test is strict (lets one request too many through).
AtLimitStrict(q) == Len(q) > requests_per_minute

\* rate_limiter.py:37: len(self.request_times) >= self.requests_per_minute
AtLimit(q) == Len(q) >= requests_per_minute

\* A plausible slip: the wait is computed from the newest recorded request,
\* request_times[-1], instead of the oldest.
SleepTimeFromNewest(q, t) == q[Len(q)] + Window - t

\* rate_limiter.py:38: (self.request_times[0] + timedelta(minutes=1) - now).total_seconds()
SleepTime(q, t) == Head(q) + Window - t

\* The number of recorded calls that lie within the last minute at time t.
InWindow(q, t) == Cardinality({i \in DOMAIN q : t - q[i] < Window})

LimiterStart ==
    /\ requests_per_minute \in 1..MaxLimit
    /\ request_times = <<>>
    /\ lock = 0
    /\ clock = 0
    /\ lpc = [t \in Threads |-> "idle"]
    /\ now = [t \in Threads |-> 0]
    /\ wake = [t \in Threads |-> 0]
    /\ seen = [t \in Threads |-> [qlen |-> 0, in_window |-> 0, head |-> NoTime]]
    /\ calls = <<>>

\* The clock advances (also while a thread sleeps or waits for the lock): up
\* to MaxTicks ticks, and beyond them for as long as a sleeper waits for its
\* time.
Tick ==
    /\ \/ clock + TickSeconds <= MaxTicks * TickSeconds
       \/ \E t \in Threads : lpc[t] = "sleeping" /\ clock < wake[t]
    /\ clock' = clock + TickSeconds
    /\ UNCHANGED <<requests_per_minute, request_times, lock, lpc, now, wake, seen, calls>>
    /\ UNCHANGED <<retryVars, pagVars, collVars>>

InProgress == Cardinality({t \in Threads : lpc[t] # "idle"})

\* A plausible slip: the body runs without the lock being free.
AcquireWithoutLock(t) ==
    /\ lpc[t] = "idle"
    /\ Len(calls) + InProgress < MaxCalls
    /\ lock' = t
    /\ lpc' = [lpc EXCEPT ![t] = "locked"]
    /\ UNCHANGED <<requests_per_minute, request_times, clock, now, wake, seen, calls>>
    /\ UNCHANGED <<retryVars, pagVars, collVars>>

\* rate_limiter.py:29: `with self.lock:` is entered.
Acquire(t) ==
    /\ lpc[t] = "idle"
    /\ lock = 0
    /\ Len(calls) + InProgress < MaxCalls
    /\ lock' = t
    /\ lpc' = [lpc EXCEPT ![t] = "locked"]
    /\ UNCHANGED <<requests_per_minute, request_times, clock, now, wake, seen, calls>>
    /\ UNCHANGED <<retryVars, pagVars, collVars>>

\* One returned call, as the history keeps it.
CallRecord(t, n, sn, slept, at) ==
    [thread |-> t, now |-> n, qlen |-> sn.qlen, in_window |-> sn.in_window,
     head |-> sn.head, slept |-> slept, released |-> at]

\* rate_limiter.py:30-45 up to the sleep: read the clock, evict, test the limit,
\* and either start to sleep (holding the lock) or record the request and return.
Check(t) ==
    /\ lpc[t] = "locked"
    /\ lock = t
    /\ now' = [now EXCEPT ![t] = clock]
    /\ LET q == Evict(request_times, clock)
           sn == [qlen |-> Len(request_times),
                  in_window |-> InWindow(request_times, clock),
                  head |-> IF q = <<>> THEN NoTime ELSE Head(q)]
       IN /\ seen' = [seen EXCEPT ![t] = sn]
          /\ IF AtLimit(q) /\ SleepTime(q, clock) > 0
             THEN /\ request_times' = q
                  /\ wake' = [wake EXCEPT ![t] = clock + SleepTime(q, clock)]
                  /\ lpc' = [lpc EXCEPT ![t] = "sleeping"]
                  /\ UNCHANGED <<lock, calls>>
             ELSE /\ request_times' = Append(q, clock)
                  /\ lock' = 0
                  /\ lpc' = [lpc EXCEPT ![t] = "idle"]
                  /\ calls' = Append(calls, CallRecord(t, clock, sn, 0, clock))
                  /\ UNCHANGED wake
    /\ UNCHANGED <<requests_per_minute, clock>>
    /\ UNCHANGED <<retryVars, pagVars, collVars>>

\* A plausible slip: lock.acquire() with the release left out on the path
\* through the sleep.
HeldAfterSleep(t) == t

\* rate_limiter.py:29: leaving the `with self.lock:` block releases the lock.
Unlocked(t) == 0

\* rate_limiter.py:40-45 after the sleep: time.sleep has returned (not before
\* sleep_time has passed), the head is popped, `now` is recorded, the lock released.
Wake(t) ==
    /\ lpc[t] = "sleeping"
    /\ lock = t
    /\ clock >= wake[t]
    /\ request_times' = Append(Tail(request_times), now[t])
    /\ lock' = Unlocked(t)
    /\ lpc' = [lpc EXCEPT ![t] = "idle"]
    /\ calls' = Append(calls, CallRecord(t, now[t], seen[t], wake[t] - now[t], clock))
    /\ UNCHANGED <<requests_per_minute, clock, now, wake, seen>>
    /\ UNCHANGED <<retryVars, pagVars, collVars>>

wait_if_needed == \E t \in Threads : Acquire(t) \/ Check(t) \/ Wake(t)

\* ------------------------------------------- transport and retry wrapper

\* No status code / no response (Python's None), and an absent Retry-After header.
NoStatus == 0 - 1
NoHeader == 0 - 1

\* What session.request can do (zendesk_client.py:65): answer with a status
\* code, or fail at the network layer with a requests exception.
NetResponse(s, ra, js) ==
    [kind |-> "response", cls |-> "Response", status_code |-> s, retry_after |-> ra, json |-> js]
NetException(c) ==
    [kind |-> "exception", cls |-> c, status_code |-> NoStatus, retry_after |-> NoHeader, json |-> FALSE]

NetOutcomes ==
    {NetResponse(200, NoHeader, js) : js \in BOOLEAN}
    \cup {NetResponse(201, NoHeader, TRUE)}
    \cup {NetResponse(s, NoHeader, FALSE) : s \in {204, 302, 401, 403, 404, 418, 500, 503}}
    \cup {NetResponse(429, ra, FALSE) : ra \in {NoHeader, 5}}
    \cup {NetException(c) : c \in {"ConnectionError", "Timeout"}}

\* What a decorated function does on one invocation: it returns a value or raises.
\* status_code is the status of the returned response, of e.status_code
\* (ZendeskAPIError) or of e.response (HTTPError); NoStatus when there is none.
Return(c, s, ra, js) ==
    [kind |-> "return", cls |-> c, status_code |-> s, retry_after |-> ra, json |-> js]
Raise(c, s, ra) ==
    [kind |-> "raise", cls |-> c, status_code |-> s, retry_after |-> ra, json |-> FALSE]

\* A plausible slip: a server error is raised without its status code.
MakeRequestDropsServerStatus(net) ==
    IF net.kind = "exception" \/ net.status_code >= 500
    THEN Raise("ZendeskAPIError", NoStatus, NoHeader)
    ELSE IF net.status_code \in {200, 201, 204}
         THEN Return("Response", net.status_code, net.retry_after, net.json)
         ELSE Raise("ZendeskAPIError", net.status_code, net.retry_after)

\* zendesk_client.py:48-90, ZendeskClient._make_request: 200, 201 and 204 return
\* the response, every other status raises ZendeskAPIError with that status, and
\* a requests exception is caught and raised again as a ZendeskAPIError without
\* a status.
MakeRequest(net) ==
    IF net.kind = "exception" THEN Raise("ZendeskAPIError", NoStatus, NoHeader)
    ELSE IF net.status_code \in {200, 201, 204}
         THEN Return("Response", net.status_code, net.retry_after, net.json)
         ELSE Raise("ZendeskAPIError", net.status_code, net.retry_after)

\* What a plain decorated callable can do: return a value without a status_code,
\* return a response (200 or 429), or raise: an exception of requests (an
\* HTTPError carries a response, or None), a ZendeskAPIError, another exception.
CallableOutcomes ==
    {Return("dict", NoStatus, NoHeader, TRUE), Return("Response", 200, NoHeader, TRUE)}
    \cup {Return("Response", 429, ra, FALSE) : ra \in {NoHeader, 5}}
    \cup {Raise(c, NoStatus, NoHeader) :
            c \in {"ConnectionError", "Timeout", "HTTPError", "ValueError"}}
    \cup {Raise("HTTPError", 429, ra) : ra \in {NoHeader, 5}}
    \cup {Raise("HTTPError", 500, NoHeader), Raise("ZendeskAPIError", 404, NoHeader)}

\* rate_limiter.py:89,96: int(headers.get('Retry-After', 60))
RetryAfter(o) == IF o.retry_after = NoHeader THEN DefaultRetryAfter ELSE o.retry_after

RateLimitSleep(n, o) == [kind |-> "rate_limit", attempt |-> n, secs |-> RetryAfter(o)]

\* rate_limiter.py:83-99, the body of wrapper for one invocation of func whose
\* outcome is o, in attempt n: the sleeps it performs and how it ends.
\*  - a returned response with status 429 sleeps Retry-After and raises
\*    HTTPError(response=result) inside the try block, so the except clause
\*    catches it and sleeps Retry-After again before it re-raises;
\*  - an HTTPError whose response has status 429 sleeps Retry-After, re-raises;
\*  - an HTTPError without a response fails on e.response.status_code;
\*  - everything else passes through.
WrapperBody(n, o) ==
    IF o.kind = "return" /\ o.cls = "Response" /\ o.status_code = 429
    THEN [sleeps |-> <<RateLimitSleep(n, o), RateLimitSleep(n, o)>>,
          end |-> Raise("HTTPError", 429, o.retry_after)]
    ELSE IF o.kind = "raise" /\ o.cls = "HTTPError" /\ o.status_code = NoStatus
    THEN [sleeps |-> <<>>, end |-> Raise("AttributeError", NoStatus, NoHeader)]
    ELSE IF o.kind = "raise" /\ o.cls = "HTTPError" /\ o.status_code = 429
    THEN [sleeps |-> <<RateLimitSleep(n, o)>>, end |-> o]
    ELSE [sleeps |-> <<>>, end |-> o]

\* A plausible slip: retry on every exception.
RetryOnAnyException(e) == e.kind = "raise"

\* rate_limiter.py:76-81: retry_if_exception_type((RequestException, HTTPError,
\* ConnectionError, Timeout)); the last three are subclasses of the first.
RetryIf(e) ==
    e.kind = "raise" /\ e.cls \in {"RequestException", "HTTPError", "ConnectionError", "Timeout"}

\* A plausible slip: one attempt more than configured (stop after
\* retry_attempts retries instead of retry_attempts attempts).
StopAfterRetries(n) == n >= retry_attempts + 1

\* rate_limiter.py:74: stop_after_attempt(self.retry_attempts)
StopAfterAttempt(n) == n >= retry_attempts

Min2(a, b) == IF a < b THEN a ELSE b
Max2(a, b) == IF a > b THEN a ELSE b

\* A plausible slip: the minimum is left out, wait_exponential(multiplier=1,
\* max=10).
WaitExponentialNoMin(n) == Min2(WaitMultiplier * 2 ^ (n - 1), WaitMax)

\* rate_limiter.py:75: wait_exponential(multiplier=1, min=4, max=10), tenacity's
\* max(max(0, min), min(multiplier * 2 ** (attempt_number - 1), max)).
WaitExponential(n) == Max2(Max2(0, WaitMin), Min2(WaitMultiplier * 2 ^ (n - 1), WaitMax))

\* tenacity's RetryError, raised when the attempts are used up (reraise is not
\* set, rate_limiter.py:73-82); it carries the last attempt.
RetryError(e) == [kind |-> "raise", cls |-> "RetryError", status_code |-> NoStatus,
                  retry_after |-> NoHeader, json |-> FALSE]

Nothing == [kind |-> "none", cls |-> None, status_code |-> NoStatus,
            retry_after |-> NoHeader, json |-> FALSE]

\* zendesk_client.py:43-46 and rate_limiter.py:120-131: the client decorates
\* _make_request with rate_limited_request(...), which returns the
\* APIRateLimiter itself, so the decorator applied is APIRateLimiter.__call__.
\* A plain callable can be decorated with either method of APIRateLimiter.
Decorations ==
    {[wrapped |-> "_make_request", decorator |-> "__call__"]}
    \cup {[wrapped |-> "callable", decorator |-> d] : d \in {"__call__", "limit_request"}}

RetryStart ==
    /\ retry_attempts \in 1..MaxRetryAttempts
    /\ \E d \in Decorations : wrapped = d.wrapped /\ decorator = d.decorator
    /\ rpc = "idle"
    /\ attempt_number = 0
    /\ func_calls = 0
    /\ net_calls = 0
    /\ throttle_calls = 0
    /\ net_log = <<>>
    /\ outcomes = <<>>
    /\ sleeps = <<>>
    /\ delivered = Nothing
    /\ get_result = Nothing

\* The decorated function is called: tenacity starts with attempt 1.
Call ==
    /\ rpc = "idle"
    /\ rpc' = "attempt"
    /\ attempt_number' = 1
    /\ UNCHANGED <<retry_attempts, wrapped, decorator, func_calls, net_calls,
                   throttle_calls, net_log, outcomes, sleeps, delivered, get_result>>
    /\ UNCHANGED <<limVars, pagVars, collVars>>

\* One invocation of the decorated function under APIRateLimiter.__call__
\* (rate_limiter.py:72-101): the wrapper body runs, then tenacity returns the
\* result, re-raises an exception it does not retry, raises RetryError when the
\* attempts are used up, or waits for the next attempt.
AttemptWith(net, o) ==
    LET w == WrapperBody(attempt_number, o)
    IN /\ func_calls' = func_calls + 1
       /\ net_calls' = IF wrapped = "_make_request" THEN net_calls + 1 ELSE net_calls
       /\ net_log' = IF wrapped = "_make_request" THEN Append(net_log, net) ELSE net_log
       /\ outcomes' = Append(outcomes, o)
       /\ IF w.end.kind = "return"
          THEN /\ rpc' = "returned"
               /\ delivered' = w.end
               /\ sleeps' = sleeps \o w.sleeps
          ELSE IF ~RetryIf(w.end)
          THEN /\ rpc' = "raised"
               /\ delivered' = w.end
               /\ sleeps' = sleeps \o w.sleeps
          ELSE IF StopAfterAttempt(attempt_number)
          THEN /\ rpc' = "raised"
               /\ delivered' = RetryError(w.end)
               /\ sleeps' = sleeps \o w.sleeps
          ELSE /\ rpc' = "backoff"
               /\ delivered' = delivered
               /\ sleeps' = (sleeps \o w.sleeps) \o
                     <<[kind |-> "backoff", attempt |-> attempt_number,
                        secs |-> WaitExponential(attempt_number)]>>
       /\ UNCHANGED <<retry_attempts, wrapped, decorator, attempt_number,
                      throttle_calls, get_result>>
       /\ UNCHANGED <<limVars, pagVars, collVars>>

Attempt ==
    /\ rpc = "attempt"
    /\ decorator = "__call__"
    /\ IF wrapped = "_make_request"
       THEN \E net \in NetOutcomes : AttemptWith(net, MakeRequest(net))
       ELSE \E o \in CallableOutcomes : AttemptWith(Nothing, o)

\* tenacity's sleep between two attempts is over: the next attempt starts.
Backoff ==
    /\ rpc = "backoff"
    /\ rpc' = "attempt"
    /\ attempt_number' = attempt_number + 1
    /\ UNCHANGED <<retry_attempts, wrapped, decorator, func_calls, net_calls,
                   throttle_calls, net_log, outcomes, sleeps, delivered, get_result>>
    /\ UNCHANGED <<limVars, pagVars, collVars>>

\* rate_limiter.py:103-117, limit_request: wait_if_needed, then the function,
\* once, without retry and without 429 handling.
LimitRequest ==
    /\ rpc = "attempt"
    /\ decorator = "limit_request"
    /\ \E o \in CallableOutcomes :
         /\ outcomes' = Append(outcomes, o)
         /\ delivered' = o
         /\ rpc' = IF o.kind = "return" THEN "returned" ELSE "raised"
    /\ throttle_calls' = throttle_calls + 1
    /\ func_calls' = func_calls + 1
    /\ UNCHANGED <<retry_attempts, wrapped, decorator, attempt_number, net_calls,
                   net_log, sleeps, get_result>>
    /\ UNCHANGED <<limVars, pagVars, collVars>>

\* zendesk_client.py:92-107, ZendeskClient.get after _make_request: an error of
\* _make_request propagates; a response is decoded with response.json(), and a
\* body that is no JSON raises ZendeskAPIError without a status.
Get ==
    /\ wrapped = "_make_request"
    /\ rpc \in {"returned", "raised"}
    /\ get_result = Nothing
    /\ get_result' =
         IF rpc = "raised" THEN delivered
         ELSE IF delivered.json THEN Return("dict", NoStatus, NoHeader, TRUE)
         ELSE Raise("ZendeskAPIError", NoStatus, NoHeader)
    /\ UNCHANGED <<retry_attempts, wrapped, decorator, rpc, attempt_number, func_calls,
                   net_calls, throttle_calls, net_log, outcomes, sleeps, delivered>>
    /\ UNCHANGED <<limVars, pagVars, collVars>>

\* -------------------------------------------------------------- paginator

\* A URL or endpoint string, by its parts: scheme ("" for a relative endpoint,
\* "none" for None), path segments, and query pairs <<key, value>> in order.
NoUrl == [scheme |-> "none", path |-> <<>>, query |-> <<>>]

\* self.base_url ends in /api/v2 (config.py:96).
ApiPrefix == <<"api", "v2">>

\* The endpoint of the listing, as the collectors pass it.
ListPath == <<"tickets.json">>
Endpoint == [scheme |-> "", path |-> ListPath, query |-> <<>>]

\* A JSON value of a page body: a list of records, a number, null, or a string
\* holding a URL.
JList(items) == [t |-> "list", items |-> items, url |-> NoUrl]
JInt == [t |-> "int", items |-> <<>>, url |-> NoUrl]
JNull == [t |-> "null", items |-> <<>>, url |-> NoUrl]
JUrl(u) == [t |-> "str", items |-> <<>>, url |-> u]

Field(k, v) == [key |-> k, val |-> v]

\* The lists a page can carry: records are told apart by their ids.
ItemLists == {<<>>, <<1>>, <<2, 1>>}

\* A page body without its next_page field: the fields in the body's key order.
\* One list-valued field (before or after a scalar), none, or two.
BodiesOneList ==
    {<<Field("tickets", JList(l)), Field("count", JInt)>> : l \in ItemLists}
    \cup {<<Field("count", JInt), Field("tickets", JList(<<1, 2>>))>>}
BodiesNoList == {<<Field("count", JInt)>>}
BodiesTwoLists == {<<Field("tickets", JList(<<1>>)), Field("users", JList(<<2>>))>>}
Bodies == BodiesOneList \cup BodiesNoList \cup BodiesTwoLists

\* The params a caller passes: none, or one filter.
ParamChoices == {<<>>, <<<<"status", "open">>>>}

\* The server's next_page of page k, for a listing first requested with query
\* q0: page k+1 of the same listing with the caller's filter kept. "abs" is an
\* absolute URL under /api/v2, "rel" an endpoint relative to the base URL.
ServerNextUrl(form, k, q0) ==
    IF form = "abs"
    THEN [scheme |-> "https", path |-> ApiPrefix \o ListPath,
          query |-> <<<<"page", k + 1>>>> \o q0]
    ELSE [scheme |-> "", path |-> ListPath, query |-> <<<<"page", k + 1>>>> \o q0]

\* The value of key k in query q, or 0 when q has no such key.
RECURSIVE QueryGet(_, _)
QueryGet(q, k) ==
    IF q = <<>> THEN 0
    ELSE IF Head(q)[1] = k THEN Head(q)[2] ELSE QueryGet(Tail(q), k)

RECURSIVE QueryWithout(_, _)
QueryWithout(q, k) ==
    IF q = <<>> THEN <<>>
    ELSE IF Head(q)[1] = k THEN QueryWithout(Tail(q), k)
    ELSE <<Head(q)>> \o QueryWithout(Tail(q), k)

\* The page of the listing a request asks for: the page parameter, 1 without
\* one; 0 when the request is not for the listing or the page does not exist.
ServerPageOf(req) ==
    LET k == IF QueryGet(req.query, "page") = 0 THEN 1 ELSE QueryGet(req.query, "page")
    IN IF req.path = ApiPrefix \o ListPath /\ k \in DOMAIN pages THEN k ELSE 0

\* The body the server sends for page k of a request: the stored fields and,
\* after them, next_page: the next URL, or on the last page null or nothing.
ServerBody(k, req) ==
    LET last == pages[k].last
    IN IF k < Len(pages)
       THEN pages[k].fields \o
            <<Field("next_page",
                    JUrl(ServerNextUrl(url_form, k, QueryWithout(req.query, "page"))))>>
       ELSE IF last = "null" THEN pages[k].fields \o <<Field("next_page", JNull)>>
       ELSE pages[k].fields

\* urllib's parse_qs: the values of each key, in order of first appearance.
RECURSIVE ValuesOf(_, _)
ValuesOf(q, k) ==
    IF q = <<>> THEN <<>>
    ELSE (IF Head(q)[1] = k THEN <<Head(q)[2]>> ELSE <<>>) \o ValuesOf(Tail(q), k)

RECURSIVE ParseQs(_)
ParseQs(q) ==
    IF q = <<>> THEN <<>>
    ELSE <<[key |-> Head(q)[1], values |-> ValuesOf(q, Head(q)[1])]>>
         \o ParseQs(QueryWithout(Tail(q), Head(q)[1]))

\* requests' encoding of params: a key with a list is repeated per value. The
\* params hold, per key, the list of its values; zendesk_client.py:134-135
\* unwraps a list of one value, which encodes the same.
RECURSIVE EncodeParams(_)
EncodeParams(ps) ==
    IF ps = <<>> THEN <<>>
    ELSE [i \in DOMAIN Head(ps).values |-> <<Head(ps).key, Head(ps).values[i]>>]
         \o EncodeParams(Tail(ps))

\* A plausible slip: the base path is not removed, so that base_url + endpoint
\* names /api/v2/api/v2/...
KeepApiPrefix(path) == path

\* zendesk_client.py:128-129: endpoint_path[7:] when it starts with /api/v2.
StripApiPrefix(path) ==
    IF Len(path) >= 2 /\ SubSeq(path, 1, 2) = ApiPrefix
    THEN SubSeq(path, 3, Len(path)) ELSE path

\* zendesk_client.py:124-139 with _make_request's url = base_url + endpoint
\* (zendesk_client.py:62): the request sent for the local url u with the local
\* request_params rp. An absolute URL is parsed into endpoint path and params;
\* anything else is used as the endpoint, with rp.
RequestFor(u, rp) ==
    IF u.scheme \in {"http", "https"}
    THEN [path |-> ApiPrefix \o StripApiPrefix(u.path),
          query |-> EncodeParams(ParseQs(u.query))]
    ELSE [path |-> ApiPrefix \o u.path, query |-> u.query \o EncodeParams(ParseQs(rp))]

\* A plausible slip: the loop over the keys has no break, so that the last
\* list-valued key wins.
RECURSIVE DataKeyLast(_)
DataKeyLast(body) ==
    IF body = <<>> THEN None
    ELSE IF DataKeyLast(Tail(body)) # None THEN DataKeyLast(Tail(body))
    ELSE IF Head(body).val.t = "list" /\ Head(body).key # "next_page"
    THEN Head(body).key
    ELSE None

\* zendesk_client.py:142-146: the first key whose value is a list and which is
\* not next_page; None when there is none.
RECURSIVE DataKey(_)
DataKey(body) ==
    IF body = <<>> THEN None
    ELSE IF Head(body).val.t = "list" /\ Head(body).key # "next_page"
    THEN Head(body).key
    ELSE DataKey(Tail(body))

\* response_data[key], and response_data.get('next_page') as a URL.
RECURSIVE BodyGet(_, _)
BodyGet(body, k) ==
    IF body = <<>> THEN JNull
    ELSE IF Head(body).key = k THEN Head(body).val ELSE BodyGet(Tail(body), k)

\* zendesk_client.py:148-150: the elements the page yields; `if data_key:` is
\* false for None and would be for an empty key.
PageItems(body) ==
    IF DataKey(body) # None /\ DataKey(body) # "" THEN BodyGet(body, DataKey(body)).items
    ELSE <<>>

\* A plausible slip: next_page is followed only from a page that had records.
NextPageAfterRecords(body) ==
    IF DataKey(body) = None THEN NoUrl ELSE BodyGet(body, "next_page").url

\* zendesk_client.py:153: url = response_data.get('next_page')
NextPageOf(body) == BodyGet(body, "next_page").url

\* A plausible slip: the params are left as they are for the next request.
KeptParams == request_params

\* zendesk_client.py:154: request_params = {}
ClearedParams == <<>>

PaginatorStart ==
    /\ \E n \in 1..MaxPages :
         pages \in [1..n -> [fields : Bodies, last : {"null", "absent"}]]
    /\ \A k \in DOMAIN pages : k < Len(pages) => pages[k].last = "null"
    /\ url_form \in {"abs", "rel"}
    /\ params \in ParamChoices
    /\ url = Endpoint
    /\ request_params = params
    /\ ppc = "request"
    /\ demanded = FALSE
    /\ response_data = <<>>
    /\ item_idx = 1
    /\ yielded = <<>>
    /\ requests = <<>>

\* A plausible slip: the pages are fetched ahead of the consumer (a list is
\* built, or the next page is prefetched).
RunsAhead == ppc = "request" \/ demanded

\* get_paginated is a generator function (the yield of zendesk_client.py:150):
\* its body runs only while a next() of the consumer is pending.
Resumed == demanded

\* The consumer asks the generator for its next record (next(), a for loop,
\* list() in get_all), also of a generator that has ended.
Demand ==
    /\ ~demanded
    /\ demanded' = TRUE
    /\ UNCHANGED <<pages, url_form, params, url, request_params, ppc, response_data,
                   item_idx, yielded, requests>>
    /\ UNCHANGED <<limVars, retryVars, collVars>>

\* zendesk_client.py:122-139: the loop body up to the response of self.get.
Fetch ==
    /\ ppc = "request"
    /\ Resumed
    /\ LET req == RequestFor(url, request_params)
           k == ServerPageOf(req)
       IN /\ requests' = Append(requests, req)
          /\ k # 0
          /\ response_data' = ServerBody(k, req)
          /\ ppc' = "yield"
          /\ item_idx' = 1
    /\ UNCHANGED <<pages, url_form, params, url, request_params, demanded, yielded>>
    /\ UNCHANGED <<limVars, retryVars, collVars>>

\* zendesk_client.py:137,139: self.get raises ZendeskAPIError: the request
\* failed, or it named something the server does not have. The generator ends.
FetchFails ==
    /\ ppc = "request"
    /\ Resumed
    /\ requests' = Append(requests, RequestFor(url, request_params))
    /\ ppc' = "raised"
    /\ demanded' = FALSE
    /\ UNCHANGED <<pages, url_form, params, url, request_params, response_data,
                   item_idx, yielded>>
    /\ UNCHANGED <<limVars, retryVars, collVars>>

\* A plausible slip: the loop catches the error and tries the page again when
\* it is asked for the next record.
RetriedAfterEnd(pc) == IF pc = "raised" THEN "request" ELSE pc

\* A generator whose body has raised or returned stays ended.
AfterEnd(pc) == pc

\* zendesk_client.py:122-154, a generator function: once its body has raised
\* (line 139) or left the loop, a next() finds it ended and gets StopIteration
\* without any of the body running.
Exhausted ==
    /\ ppc \in {"raised", "done"}
    /\ demanded
    /\ demanded' = FALSE
    /\ ppc' = AfterEnd(ppc)
    /\ UNCHANGED <<pages, url_form, params, url, request_params, response_data,
                   item_idx, yielded, requests>>
    /\ UNCHANGED <<limVars, retryVars, collVars>>

\* zendesk_client.py:148-150: the next element of the page is yielded.
Yield ==
    /\ ppc = "yield"
    /\ Resumed
    /\ item_idx <= Len(PageItems(response_data))
    /\ yielded' = Append(yielded, PageItems(response_data)[item_idx])
    /\ item_idx' = item_idx + 1
    /\ demanded' = FALSE
    /\ UNCHANGED <<pages, url_form, params, url, request_params, ppc, response_data,
                   requests>>
    /\ UNCHANGED <<limVars, retryVars, collVars>>

\* zendesk_client.py:153-154 and the loop test of line 122: the page is used
\* up; url and request_params are set, and the generator ends when url is None.
Advance ==
    /\ ppc = "yield"
    /\ Resumed
    /\ item_idx > Len(PageItems(response_data))
    /\ url' = NextPageOf(response_data)
    /\ request_params' = ClearedParams
    /\ IF NextPageOf(response_data) = NoUrl
       THEN ppc' = "done" /\ demanded' = FALSE
       ELSE ppc' = "request" /\ demanded' = demanded
    /\ UNCHANGED <<pages, url_form, params, response_data, item_idx, yielded, requests>>
    /\ UNCHANGED <<limVars, retryVars, collVars>>

\* ------------------------------------------------------------- collectors

Collectors == {"tickets", "users", "organizations", "macros", "groups", "knowledge_base"}

\* The entity kinds a collector lists, in the order collect_all lists them
\* (knowledge_base.py:42-48); the other collectors list one kind.
Kinds(c) ==
    IF c = "knowledge_base" THEN <<"categories", "sections", "articles">> ELSE <<c>>

\* Python's {} as a related object, and an object the server has for an id.
EmptyObject == [kind |-> "", id |-> 0]
Obj(k, i) == [kind |-> k, id |-> i]

\* An empty dict and dict[k] = v, for caches and results keyed at run time.
EmptyDict == [k \in {} |-> 0]
Put(d, k, v) == [j \in DOMAIN d \cup {k} |-> IF j = k THEN v ELSE d[j]]

\* record.get(field, default)
GetOr(rec, field, default) == IF field \in DOMAIN rec THEN rec[field] ELSE default

\* The records a listing can hold, by kind; the id (0 here) is given by the
\* position in the listing. An id of 0 in a reference stands for None/absent.
TicketShapes ==
    {[id |-> 0, status |-> "open", priority |-> "high", requester_id |-> 10,
      assignee_id |-> 11, organization_id |-> 20, group_id |-> 30,
      custom_fields |-> <<[id |-> 40, value |-> "x"], [id |-> 41, value |-> None]>>],
     [id |-> 0, status |-> "solved", requester_id |-> 10, assignee_id |-> 0,
      organization_id |-> 0, group_id |-> 0, custom_fields |-> <<>>],
     [id |-> 0, requester_id |-> 11, assignee_id |-> 10, organization_id |-> 20,
      group_id |-> 0, custom_fields |-> <<>>]}

UserShapes ==
    {[id |-> 0, role |-> "admin", organization_id |-> 20],
     [id |-> 0, role |-> "agent", organization_id |-> 0],
     [id |-> 0, role |-> "end-user", organization_id |-> 0],
     [id |-> 0, organization_id |-> 20]}

OrganizationShapes == {[id |-> 0]}

MacroShapes == {[id |-> 0, active |-> TRUE], [id |-> 0, active |-> FALSE], [id |-> 0]}

GroupShapes == {[id |-> 0, deleted |-> FALSE], [id |-> 0, deleted |-> TRUE], [id |-> 0]}

Shapes(kind) ==
    CASE kind = "tickets" -> TicketShapes
      [] kind = "users" -> UserShapes
      [] kind = "organizations" -> OrganizationShapes
      [] kind = "macros" -> MacroShapes
      [] kind = "groups" -> GroupShapes
      [] kind = "categories" -> {[id |-> 0]}
      [] kind = "sections" -> {[id |-> 0, category_id |-> 1]}
      [] kind = "articles" -> {[id |-> 0, author_id |-> 10, section_id |-> 1]}

\* The pages of a listing whose records are recs, cut after the positions in
\* breaks; a listing without records is one empty page.
RECURSIVE Cut(_, _, _)
Cut(recs, breaks, start) ==
    LET later == {b \in breaks : b >= start}
        stop == IF later = {} THEN Len(recs)
                ELSE CHOOSE b \in later : \A c \in later : b <= c
    IN <<SubSeq(recs, start, stop)>> \o
       (IF stop >= Len(recs) THEN <<>> ELSE Cut(recs, breaks, stop + 1))

\* The listings of a kind the server can hold: up to max records with ids
\* 1, 2, ..., in every split into non-empty pages.
ListingsUpTo(kind, max) ==
    UNION { UNION { { Cut([i \in 1..n |-> [sh[i] EXCEPT !.id = i]], breaks, 1) :
                        breaks \in SUBSET (1..(n - 1)) } :
                    sh \in [1..n -> Shapes(kind)] } :
            n \in 0..max }

\* A listing that drifts while it is read (a record is added in front of it):
\* the last record of the first page comes again on the second. Tried for
\* the users, whose statistics are cached by id.
Repeats(kind) ==
    IF kind = "users"
    THEN {<<<<[sh EXCEPT !.id = 1]>>, <<[sh EXCEPT !.id = 1]>>>> :
            sh \in {s \in Shapes(kind) : "role" \in DOMAIN s /\ s.role = "end-user"}}
    ELSE {}

Listings(kind) == ListingsUpTo(kind, MaxRecords) \cup Repeats(kind)

\* What the server holds besides the listings: the comments of a ticket, the
\* group memberships of a user and of a group, the users of an organization.
CommentsOf(ticket_id) == <<[id |-> 1, author_id |-> 10, author_name |-> 0]>>
UserGroups(user_id) == IF user_id = 1 THEN <<30, 31>> ELSE <<30>>
GroupMembers(group_id) == IF group_id = 1 THEN <<10>> ELSE <<10, 11>>
OrganizationUsers(org_id) == <<Obj("users", 10)>>

\* The arguments collect_all can be given: include_comments (tickets.py:30),
\* active_only (macros.py:21), include_deleted (macros.py:141).
ArgChoices(c) ==
    CASE c = "tickets" ->
           {[include_comments |-> b, active_only |-> FALSE, include_deleted |-> FALSE] :
              b \in BOOLEAN}
      [] c = "macros" ->
           {[include_comments |-> FALSE, active_only |-> b, include_deleted |-> FALSE] :
              b \in BOOLEAN}
      [] c = "groups" ->
           {[include_comments |-> FALSE, active_only |-> FALSE, include_deleted |-> b] :
              b \in BOOLEAN}
      [] OTHER ->
           {[include_comments |-> FALSE, active_only |-> FALSE, include_deleted |-> FALSE]}

\* The caches a collector instance starts with (the __init__ methods).
CacheNames == {"users_cache", "organizations_cache", "groups_cache", "custom_fields_cache",
               "user_stats_cache", "sections_cache", "categories_cache"}
EmptyCaches == [n \in CacheNames |-> EmptyDict]

\* An enriched record: the record as listed, and the keys enrichment added.
\* A plausible slip: the organization found is merged into the record with
\* dict.update, and its id replaces the record's.
UpdatedWithOrganization(e) ==
    [k \in DOMAIN e.rec \cup DOMAIN e.derived |->
        IF k = "id" /\ "organization_info" \in DOMAIN e.derived
        THEN e.derived["organization_info"].id
        ELSE IF k \in DOMAIN e.derived THEN e.derived[k] ELSE e.rec[k]]

\* The dict an enriched record is: enrichment assigns each derived key into the
\* record it was handed, `ticket['requester_info'] = ...` and the like
\* (tickets.py:104-115, users.py:85-91, organizations.py:67, macros.py:191,
\* knowledge_base.py:100,158-166), so a key the record had is overwritten.
AsDict(e) ==
    [k \in DOMAIN e.rec \cup DOMAIN e.derived |->
        IF k \in DOMAIN e.derived THEN e.derived[k] ELSE e.rec[k]]

Enriched(rec, d) == [rec |-> rec, derived |-> d]

\* One lookup of an enrichment: the key it fills (rel), the endpoint family it
\* asks (via), the id it asks for, and the position it fills (at) when the key
\* is a list.
Step(rel, via, id, at) == [rel |-> rel, via |-> via, id |-> id, at |-> at]

\* A plausible slip: only users are cached, every other related object is
\* asked for again on each resolution.
CacheOnlyUsers(c, via) ==
    IF c \in {"tickets", "knowledge_base"} /\ via = "users" THEN "users_cache" ELSE None

\* The cache a lookup goes through, None when the collector keeps none for it
\* (tickets.py:131,152,173,201; users.py:107,150; organizations.py:80;
\* macros.py:204, and none in macros.py:225-238; knowledge_base.py:182).
CacheOf(c, via) ==
    CASE c = "tickets" /\ via = "users" -> "users_cache"
      [] c = "tickets" /\ via = "organizations" -> "organizations_cache"
      [] c = "tickets" /\ via = "groups" -> "groups_cache"
      [] c = "tickets" /\ via = "ticket_fields" -> "custom_fields_cache"
      [] c = "users" /\ via = "organizations" -> "organizations_cache"
      [] c = "users" /\ via = "groups" -> "groups_cache"
      [] c = "organizations" /\ via = "org_users" -> "users_cache"
      [] c = "groups" /\ via = "group_memberships" -> "users_cache"
      [] c = "knowledge_base" /\ via = "users" -> "users_cache"
      [] OTHER -> None

\* `if not user_id: return {}` and its like (tickets.py:128,149,170;
\* users.py:104; knowledge_base.py:179): the lookups that answer {} for a
\* missing id without asking.
Guarded(c, via) ==
    \/ c = "tickets" /\ via \in {"users", "organizations", "groups"}
    \/ c = "users" /\ via = "organizations"
    \/ c = "knowledge_base" /\ via = "users"

\* What a successful request returns, and what the caller uses when the request
\* raised ZendeskAPIError.
Answer(via, id) ==
    CASE via = "comments" -> CommentsOf(id)
      [] via = "user_memberships" -> UserGroups(id)
      [] via = "group_memberships" -> GroupMembers(id)
      [] via = "org_users" -> OrganizationUsers(id)
      [] via = "search" -> 1
      [] OTHER -> Obj(via, id)

\* A plausible slip: every failed lookup leaves {} behind, also the comments.
PlaceholderAlwaysObject(via) == IF via = "search" THEN 0 ELSE EmptyObject

Placeholder(via) ==
    CASE via \in {"comments", "user_memberships", "group_memberships", "org_users"} -> <<>>
      [] via = "search" -> 0
      [] OTHER -> EmptyObject

\* users.py:171-175 and the three searches of users.py:177-205.
StatKeys == <<"tickets_requested", "tickets_assigned", "tickets_solved">>
ZeroStatistics == [k \in {StatKeys[i] : i \in 1..3} |-> 0]

\* tickets.py:193-198: one definition lookup per custom field with a value.
FieldSteps(fs) ==
    SelectSeq([i \in 1..Len(fs) |-> Step("custom_fields_processed", "ticket_fields", fs[i].id, i)],
              LAMBDA s : fs[s.at].value # None)

\* The lookups the enrichment of rec starts with, in the order of the code:
\* tickets.py:93-115, users.py:85-91, organizations.py:67, macros.py:191,
\* knowledge_base.py:158. The last step of users.py:207 stores the statistics.
Plan(kind, rec) ==
    CASE kind = "tickets" ->
           (IF args.include_comments THEN <<Step("comments", "comments", rec.id, 0)>> ELSE <<>>)
           \o <<Step("requester_info", "users", GetOr(rec, "requester_id", 0), 0),
                Step("assignee_info", "users", GetOr(rec, "assignee_id", 0), 0),
                Step("organization_info", "organizations", GetOr(rec, "organization_id", 0), 0),
                Step("group_info", "groups", GetOr(rec, "group_id", 0), 0)>>
           \o FieldSteps(GetOr(rec, "custom_fields", <<>>))
      [] kind = "users" ->
           <<Step("organization_info", "organizations", GetOr(rec, "organization_id", 0), 0),
             Step("groups_info", "user_memberships", rec.id, 0)>>
           \o (IF rec.id \in DOMAIN caches["user_stats_cache"] THEN <<>>
               ELSE [i \in 1..3 |-> Step("statistics", "search", rec.id, i)]
                    \o <<Step("statistics", "store", rec.id, 0)>>)
      [] kind = "organizations" -> <<Step("users_info", "org_users", rec.id, 0)>>
      [] kind = "groups" -> <<Step("agents_info", "group_memberships", rec.id, 0)>>
      [] kind = "articles" -> <<Step("author_info", "users", GetOr(rec, "author_id", 0), 0)>>
      [] OTHER -> <<>>

\* The keys enrichment sets without a lookup: the dict custom fields are
\* processed into (tickets.py:191), the statistics before the searches or
\* from the cache (users.py:168-175), and the knowledge base's section and
\* category, read from the caches (knowledge_base.py:100,161-166).
Derived0(kind, rec) ==
    CASE kind = "tickets" ->
           IF GetOr(rec, "custom_fields", <<>>) # <<>>
           THEN Put(EmptyDict, "custom_fields_processed", <<>>) ELSE EmptyDict
      [] kind = "users" ->
           Put(EmptyDict, "statistics",
               GetOr(caches["user_stats_cache"], rec.id, ZeroStatistics))
      [] kind = "sections" ->
           Put(EmptyDict, "category_info",
               GetOr(caches["categories_cache"], GetOr(rec, "category_id", 0), EmptyObject))
      [] kind = "articles" ->
           LET section == GetOr(caches["sections_cache"], GetOr(rec, "section_id", 0),
                                EmptyObject)
           IN IF section = EmptyObject
              THEN Put(EmptyDict, "section_info", section)
              ELSE Put(Put(EmptyDict, "section_info", section), "category_info",
                       GetOr(section.derived, "category_info", EmptyObject))
      [] OTHER -> EmptyDict

\* The lookups a successful request adds in front of the rest: the authors of
\* the comments (tickets.py:98-102), the groups of the memberships
\* (users.py:130-135), the users of the memberships and the store of the list
\* (macros.py:212-219).
Pushes(s) ==
    CASE s.via = "comments" ->
           [j \in 1..Len(CommentsOf(s.id)) |->
              Step("comments", "users", CommentsOf(s.id)[j].author_id, j)]
      [] s.via = "user_memberships" ->
           [j \in 1..Len(UserGroups(s.id)) |-> Step("groups_info", "groups", UserGroups(s.id)[j], j)]
      [] s.via = "group_memberships" ->
           [j \in 1..Len(GroupMembers(s.id)) |->
              Step("agents_info", "users", GroupMembers(s.id)[j], j)]
           \o <<Step("agents_info", "store", s.id, 0)>>
      [] OTHER -> <<>>

\* The derived keys after step s got value v (fresh: v is the answer of a
\* request made now, not a cached value and not a failure placeholder).
Assign(d, s, v, fresh) ==
    CASE s.via = "store" -> d
      [] s.rel = "comments" /\ s.via = "users" ->
           Put(d, "comments", [d["comments"] EXCEPT ![s.at].author_name = v.id])
      [] s.rel = "custom_fields_processed" ->
           Put(d, s.rel, Append(d[s.rel], [id |-> s.id, titled |-> v # EmptyObject,
                                           value |-> current.custom_fields[s.at].value]))
      [] s.rel = "groups_info" /\ s.via = "user_memberships" -> Put(d, s.rel, <<>>)
      [] s.rel = "agents_info" /\ s.via = "group_memberships" ->
           Put(d, s.rel, IF fresh THEN <<>> ELSE v)
      [] s.rel \in {"groups_info", "agents_info"} ->
           IF v # EmptyObject THEN Put(d, s.rel, Append(d[s.rel], v)) ELSE d
      [] s.rel = "statistics" ->
           IF fresh THEN Put(d, s.rel, [d[s.rel] EXCEPT ![StatKeys[s.at]] = v]) ELSE d
      [] OTHER -> Put(d, s.rel, v)

\* The lookups whose value is one related object.
ObjectVias == {"users", "organizations", "groups", "ticket_fields"}

Lookup(s, ok) ==
    [endpoint |-> s.via, id |-> s.id, at |-> s.at, ok |-> ok,
     of |-> Kinds(collector)[phase], record |-> Len(listed)]

Resolution(s, v, requested) ==
    [via |-> s.via, id |-> s.id, value |-> v, requested |-> requested,
     record |-> Len(listed)]

\* The pages of the kind being collected.
Pages == listing[Kinds(collector)[phase]]

\* The outcomes the next request can have: it succeeds, or it fails with
\* ZendeskAPIError (as long as the run has failures left to follow).
Failed == Cardinality({i \in DOMAIN lookups : ~lookups[i].ok})
RequestOutcomes == IF Failed < MaxFailures THEN BOOLEAN ELSE {TRUE}

CollectorStart ==
    /\ collector \in Collectors
    /\ args \in ArgChoices(collector)
    /\ listing \in [{Kinds(collector)[i] : i \in DOMAIN Kinds(collector)} ->
                      UNION {Listings(Kinds(collector)[i]) : i \in DOMAIN Kinds(collector)}]
    /\ \A k \in DOMAIN listing : listing[k] \in Listings(k)
    /\ phase = 1
    /\ cpc = "idle"
    /\ page = 0
    /\ idx = 0
    /\ current = EmptyObject
    /\ derived = EmptyDict
    /\ todo = <<>>
    /\ caches = EmptyCaches
    /\ collected = <<>>
    /\ returned = <<>>
    /\ lookups = <<>>
    /\ resolutions = <<>>
    /\ listed = <<>>
    /\ stats = <<>>
    /\ all_data = <<>>

\* collect_all is called: the locals are set up (tickets.py:52, users.py:43,
\* organizations.py:32, macros.py:32,152, knowledge_base.py:34-38,62).
collect_all ==
    /\ cpc = "idle"
    /\ cpc' = "fetching"
    /\ returned' = IF collector = "knowledge_base"
                   THEN [categories |-> <<>>, sections |-> <<>>, articles |-> <<>>]
                   ELSE returned
    /\ UNCHANGED <<collector, args, listing, phase, page, idx, current, derived, todo,
                   caches, collected, lookups, resolutions, listed, stats>>
    /\ UNCHANGED <<limVars, retryVars, pagVars, all_data>>

\* A plausible slip: the generator asks for the next page as soon as the
\* current one has arrived.
PagePrefetched == page >= 0

\* The generator has yielded every record of the page it holds
\* (zendesk_client.py:149-150), or holds no page yet.
PageUsedUp == idx = (IF page = 0 THEN 0 ELSE Len(Pages[page]))

\* The for loop asks the listing for a record and the generator has used up
\* its page: the next page is requested and arrives (zendesk_client.py:122-139).
FetchPage ==
    /\ cpc = "fetching"
    /\ page < Len(Pages)
    /\ PageUsedUp
    /\ page' = page + 1
    /\ idx' = 0
    /\ lookups' = Append(lookups, Lookup(Step("listing", "listing", page + 1, 0), TRUE))
    /\ UNCHANGED <<collector, args, listing, phase, cpc, current, derived, todo, caches,
                   collected, returned, resolutions, listed, stats>>
    /\ UNCHANGED <<limVars, retryVars, pagVars, all_data>>

\* The end of the listing of one kind with result r: the knowledge base stores
\* it under the kind and goes on with the next kind (knowledge_base.py:42-50);
\* every other collector returns it.
EndKind(r) ==
    IF collector = "knowledge_base"
    THEN /\ returned' = [returned EXCEPT ![Kinds(collector)[phase]] = r]
         /\ IF phase < Len(Kinds(collector))
            THEN phase' = phase + 1 /\ cpc' = "fetching"
            ELSE phase' = phase /\ cpc' = "done"
    ELSE /\ returned' = r
         /\ phase' = phase
         /\ cpc' = "done"

\* A plausible slip: the except clause returns what was collected so far.
PartialOnError == collected

\* What the except clause of the primary listing gives back. tickets.py:78-80,
\* users.py:71-73: return {}; organizations.py:53-55, macros.py:54-56,177-179:
\* return []; the knowledge base's _collect_* return their local list as it
\* stands (knowledge_base.py:80-83,112-115,143-146).
ResultOnError == IF collector = "knowledge_base" THEN collected ELSE <<>>

\* The request for the next page raises ZendeskAPIError, which ends the
\* generator and the for loop; the except clause of the collector catches it.
FetchPageFails ==
    /\ cpc = "fetching"
    /\ page < Len(Pages)
    /\ PageUsedUp
    /\ FALSE \in RequestOutcomes
    /\ lookups' = Append(lookups, Lookup(Step("listing", "listing", page + 1, 0), FALSE))
    /\ EndKind(ResultOnError)
    /\ page' = 0
    /\ idx' = 0
    /\ collected' = <<>>
    /\ UNCHANGED <<collector, args, listing, current, derived, todo, caches,
                   resolutions, listed, stats>>
    /\ UNCHANGED <<limVars, retryVars, pagVars, all_data>>

\* A plausible slip: `macro.get('active')` and `group.get('deleted', True)`, so
\* that a record without the flag is skipped too.
SkippedWithoutFlag(rec) ==
    \/ collector = "macros" /\ args.active_only /\ ~GetOr(rec, "active", FALSE)
    \/ collector = "groups" /\ ~args.include_deleted /\ GetOr(rec, "deleted", TRUE)

\* macros.py:41-42 and macros.py:161-162: the records `continue` skips.
Skipped(rec) ==
    \/ collector = "macros" /\ args.active_only /\ ~GetOr(rec, "active", TRUE)
    \/ collector = "groups" /\ ~args.include_deleted /\ GetOr(rec, "deleted", FALSE)

\* The listing yields its next record and the loop body starts on it.
NextRecord ==
    /\ cpc = "fetching"
    /\ page >= 1
    /\ idx < Len(Pages[page])
    /\ LET rec == Pages[page][idx + 1]
           kind == Kinds(collector)[phase]
       IN /\ listed' = Append(listed, [kind |-> kind, rec |-> rec])
          /\ idx' = idx + 1
          /\ IF Skipped(rec)
             THEN UNCHANGED <<cpc, current, derived, todo>>
             ELSE /\ cpc' = "enriching"
                  /\ current' = rec
                  /\ derived' = Derived0(kind, rec)
                  /\ todo' = Plan(kind, rec)
    /\ UNCHANGED <<collector, args, listing, phase, page, caches, collected, returned,
                   lookups, resolutions, stats>>
    /\ UNCHANGED <<limVars, retryVars, pagVars, all_data>>

\* A plausible slip: the three searches share one try block, so that a failed
\* search skips the ones after it.
SkipRestOfStatistics(s, rest) ==
    IF s.via = "search" THEN SelectSeq(rest, LAMBDA r : r.via # "search") ELSE rest

\* The lookups left after lookup s raised ZendeskAPIError: each lookup has its
\* own try/except (users.py:177-205 and the like), so the rest stands.
AfterFailure(s, rest) == rest

\* A plausible slip: a cached empty object counts as no entry, so that a failed
\* lookup is tried again.
CacheHitUnlessEmpty(cache, id) ==
    /\ cache # None
    /\ id \in DOMAIN caches[cache]
    /\ cache \in {"organizations_cache", "groups_cache", "custom_fields_cache"} =>
          caches[cache][id] # EmptyObject

\* `if user_id in self.users_cache` and its like (tickets.py:131,152,173,201;
\* users.py:107,150,165; organizations.py:80; macros.py:204;
\* knowledge_base.py:182).
CacheHit(cache, id) == cache # None /\ id \in DOMAIN caches[cache]

\* One lookup of the enrichment of the current record: a missing id answers {}
\* and a cached id answers from the cache, both without a request; otherwise
\* the request is sent, and its answer, or the placeholder when it raised
\* ZendeskAPIError, is used and (where there is a cache) cached.
\* A group's list of agents is cached when it is complete (macros.py:219) or
\* at once when the memberships request failed (macros.py:222).
Resolve ==
    /\ cpc = "enriching"
    /\ todo # <<>>
    /\ LET s == Head(todo)
           cache == CacheOf(collector, s.via)
       IN IF s.via = "store"
          THEN /\ caches' = IF collector = "users"
                            THEN [caches EXCEPT !["user_stats_cache"] =
                                    Put(@, s.id, derived["statistics"])]
                            ELSE [caches EXCEPT !["users_cache"] =
                                    Put(@, s.id, derived["agents_info"])]
               /\ todo' = Tail(todo)
               /\ UNCHANGED <<derived, lookups, resolutions>>
          ELSE IF Guarded(collector, s.via) /\ s.id = 0
          THEN /\ derived' = Assign(derived, s, EmptyObject, FALSE)
               /\ todo' = Tail(todo)
               /\ resolutions' = Append(resolutions, Resolution(s, EmptyObject, FALSE))
               /\ UNCHANGED <<caches, lookups>>
          ELSE IF CacheHit(cache, s.id)
          THEN /\ derived' = Assign(derived, s, caches[cache][s.id], FALSE)
               /\ todo' = Tail(todo)
               /\ resolutions' =
                    IF s.via \in ObjectVias
                    THEN Append(resolutions, Resolution(s, caches[cache][s.id], FALSE))
                    ELSE resolutions
               /\ UNCHANGED <<caches, lookups>>
          ELSE \E ok \in RequestOutcomes :
                 LET v == IF ok THEN Answer(s.via, s.id) ELSE Placeholder(s.via)
                 IN /\ lookups' = Append(lookups, Lookup(s, ok))
                    /\ derived' = Assign(derived, s, v, ok)
                    /\ todo' = IF ok THEN Pushes(s) \o Tail(todo)
                               ELSE AfterFailure(s, Tail(todo))
                    /\ caches' =
                         IF cache = None \/ (s.via = "group_memberships" /\ ok)
                         THEN caches
                         ELSE [caches EXCEPT ![cache] = Put(@, s.id, v)]
                    /\ resolutions' =
                         IF s.via \in ObjectVias
                         THEN Append(resolutions, Resolution(s, v, TRUE))
                         ELSE resolutions
    /\ UNCHANGED <<collector, args, listing, phase, cpc, page, idx, current, collected,
                   returned, listed, stats>>
    /\ UNCHANGED <<limVars, retryVars, pagVars, all_data>>

\* A plausible slip: the record is put in front of its list.
PrependUnder(d, k, x) == Put(d, k, <<x>> \o GetOr(d, k, <<>>))

\* dict[k].append(x) on a defaultdict(list).
AppendUnder(d, k, x) == Put(d, k, Append(GetOr(d, k, <<>>), x))

\* A plausible slip: `user['role'] != 'end-user'`, which files a user without
\* a role under the agents.
RoleClassNotEndUser(rec) ==
    IF "role" \in DOMAIN rec /\ rec.role = "end-user" THEN "end-users" ELSE "agents"

\* users.py:54-59: the key a user is filed under.
RoleClass(rec) ==
    IF GetOr(rec, "role", "end-user") \in {"admin", "agent"} THEN "agents" ELSE "end-users"

\* The enrichment of the current record is complete: the record is appended
\* to the local result (tickets.py:63-64, users.py:54-61, organizations.py:43,
\* macros.py:44,167, knowledge_base.py:70-71,102-103,134), and the knowledge
\* base remembers categories and sections for the records that follow.
AppendRecord ==
    /\ cpc = "enriching"
    /\ todo = <<>>
    /\ LET kind == Kinds(collector)[phase]
           e == Enriched(current, derived)
       IN /\ collected' =
               CASE kind = "tickets" ->
                      AppendUnder(collected, GetOr(current, "status", "unknown"), e)
                 [] kind = "users" -> AppendUnder(collected, RoleClass(current), e)
                 [] OTHER -> Append(collected, e)
          /\ caches' =
               CASE kind = "categories" ->
                      [caches EXCEPT !["categories_cache"] = Put(@, current.id, current)]
                 [] kind = "sections" ->
                      [caches EXCEPT !["sections_cache"] = Put(@, current.id, e)]
                 [] OTHER -> caches
    /\ cpc' = "fetching"
    /\ current' = EmptyObject
    /\ derived' = EmptyDict
    /\ UNCHANGED <<collector, args, listing, phase, page, idx, todo, returned, lookups,
                   resolutions, listed, stats>>
    /\ UNCHANGED <<limVars, retryVars, pagVars, all_data>>

\* A plausible slip: the end of the listing is looked for one page too late.
ListingOverrun == page > Len(Pages) /\ idx = Len(Pages[page])

\* The generator has yielded the last record of the page without next_page:
\* `while url` ends (zendesk_client.py:122,153).
ListingUsedUp == page = Len(Pages) /\ idx = Len(Pages[page])

\* The listing is used up (its last page had no next_page): the for loop ends
\* and the local result is returned (tickets.py:76, users.py:69,
\* organizations.py:51, macros.py:52,175, knowledge_base.py:83,115,146).
Finish ==
    /\ cpc = "fetching"
    /\ ListingUsedUp
    /\ EndKind(collected)
    /\ page' = 0
    /\ idx' = 0
    /\ collected' = <<>>
    /\ UNCHANGED <<collector, args, listing, current, derived, todo, caches, lookups,
                   resolutions, listed, stats>>
    /\ UNCHANGED <<limVars, retryVars, pagVars, all_data>>

\* A plausible slip: the statuses are counted, not the tickets.
CountKeys(d, keys) == Cardinality(keys)

\* sum(len(tickets) for tickets in tickets_by_status.values())
RECURSIVE SumLen(_, _)
SumLen(d, keys) ==
    IF keys = {} THEN 0
    ELSE LET k == CHOOSE x \in keys : TRUE
         IN Len(d[k]) + SumLen(d, keys \ {k})

\* The places of the tickets in a partition, as the loops of
\* tickets.py:347-348 visit them, and the ticket at a place.
Places(d) == UNION {{<<k, i>> : i \in DOMAIN d[k]} : k \in DOMAIN d}
TicketAt(d, p) == d[p[1]][p[2]].rec

\* tickets.py:338-364: the statistics of a partition of tickets by status.
Statistics(d) ==
    [total_tickets |-> SumLen(d, DOMAIN d),
     by_status |-> [k \in DOMAIN d |-> Len(d[k])],
     by_priority |->
        [v \in {GetOr(TicketAt(d, p), "priority", "unknown") : p \in Places(d)} |->
           Cardinality({p \in Places(d) : GetOr(TicketAt(d, p), "priority", "unknown") = v})],
     by_type |->
        [v \in {GetOr(TicketAt(d, p), "type", "unknown") : p \in Places(d)} |->
           Cardinality({p \in Places(d) : GetOr(TicketAt(d, p), "type", "unknown") = v})],
     with_assignee |->
        Cardinality({p \in Places(d) : GetOr(TicketAt(d, p), "assignee_id", 0) # 0}),
     with_organization |->
        Cardinality({p \in Places(d) : GetOr(TicketAt(d, p), "organization_id", 0) # 0})]

\* TicketsCollector.get_statistics is called with what collect_all returned.
get_statistics ==
    /\ cpc = "done"
    /\ collector = "tickets"
    /\ stats = <<>>
    /\ stats' = Statistics(returned)
    /\ UNCHANGED <<collector, args, listing, phase, cpc, page, idx, current, derived, todo,
                   caches, collected, returned, lookups, resolutions, listed>>
    /\ UNCHANGED <<limVars, retryVars, pagVars, all_data>>

\* ---------------------------------------------------------- the all command

\* The numbered blocks of `all`, in the order of the code (main.py:297-347).
AllOrder == <<"tickets", "users", "organizations", "knowledge_base", "macros", "groups">>

\* `if tickets_data:` and its like (main.py:306,314,322,338,346), and
\* `if any(kb_data.values()):` (main.py:330).
Truthy(data) ==
    IF collector = "knowledge_base"
    THEN \E k \in DOMAIN data : data[k] # <<>>
    ELSE data # <<>>

\* A plausible slip: each block is nested in the `if ..._data:` of the one
\* before, so that an empty result ends the run.
StopOnEmpty(i, data) == IF Truthy(data) THEN i + 1 ELSE Len(AllOrder) + 1

\* The block that follows block i when its collect_all returned data: the
\* next one, whatever data is (main.py:306-308 only exports and counts).
NextBlock(i, data) == i + 1

\* The listings of the server in a run of all the collectors: per kind, a
\* listing of at most MaxAllRecords records.
ShortListings(kind) == ListingsUpTo(kind, MaxAllRecords)
ListingsOfAll(c) ==
    LET K == Kinds(c)
    IN IF Len(K) = 1
       THEN {[k \in {K[1]} |-> x] : x \in ShortListings(K[1])}
       ELSE {[k \in {K[1], K[2], K[3]} |->
                CASE k = K[1] -> x [] k = K[2] -> y [] OTHER -> z] :
               x \in ShortListings(K[1]), y \in ShortListings(K[2]),
               z \in ShortListings(K[3])}

\* One block of `all` after its collect_all returned: the run notes which
\* collector it was and whether its listing had failed, and the next block
\* builds its collector, a new instance with empty caches.
\* The users the collector at work has requested (GET /users/{id}.json).
UsersAsked == {lookups[i].id : i \in {j \in DOMAIN lookups : lookups[j].endpoint = "users"}}

\* A plausible slip: the caches are class attributes or a module-level dict,
\* and the next collector finds what the one before it has left.
SharedCaches(left) == left

\* Every collector's __init__ makes its own empty dicts (tickets.py:22-26,
\* users.py:22-24, organizations.py:22, knowledge_base.py:22-24,
\* macros.py:139).
NewCaches(left) == EmptyCaches

all ==
    /\ cpc = "done"
    /\ Len(all_data) < Len(AllOrder)
    /\ collector = AllOrder[Len(all_data) + 1]
    /\ all_data' = Append(all_data,
                          [collector |-> collector,
                           failed |-> \E i \in DOMAIN lookups :
                                         lookups[i].endpoint = "listing" /\ ~lookups[i].ok,
                           asked |-> UsersAsked])
    /\ LET n == NextBlock(Len(all_data) + 1, returned)
       IN IF n \in DOMAIN AllOrder
          THEN /\ collector' = AllOrder[n]
               /\ args' \in ArgChoices(AllOrder[n])
               /\ listing' \in ListingsOfAll(AllOrder[n])
               /\ phase' = 1
               /\ cpc' = "idle"
               /\ page' = 0
               /\ idx' = 0
               /\ caches' = NewCaches(caches)
               /\ collected' = <<>>
               /\ returned' = <<>>
               /\ lookups' = <<>>
               /\ resolutions' = <<>>
               /\ listed' = <<>>
               /\ stats' = <<>>
               /\ UNCHANGED <<current, derived, todo>>
          ELSE UNCHANGED <<collector, args, listing, phase, cpc, page, idx, current, derived,
                           todo, caches, collected, returned, lookups, resolutions, listed,
                           stats>>
    /\ UNCHANGED <<limVars, retryVars, pagVars>>

\* -------------------------------------------------------- specifications

LimiterRest ==
    /\ requests_per_minute = 1
    /\ request_times = <<>>
    /\ lock = 0
    /\ clock = 0
    /\ lpc = [t \in Threads |-> "idle"]
    /\ now = [t \in Threads |-> 0]
    /\ wake = [t \in Threads |-> 0]
    /\ seen = [t \in Threads |-> [qlen |-> 0, in_window |-> 0, head |-> NoTime]]
    /\ calls = <<>>

RetryRest ==
    /\ retry_attempts = 1
    /\ wrapped = "_make_request"
    /\ decorator = "__call__"
    /\ rpc = "idle"
    /\ attempt_number = 0
    /\ func_calls = 0
    /\ net_calls = 0
    /\ throttle_calls = 0
    /\ net_log = <<>>
    /\ outcomes = <<>>
    /\ sleeps = <<>>
    /\ delivered = Nothing
    /\ get_result = Nothing

PaginatorRest ==
    /\ pages = <<>>
    /\ url_form = "abs"
    /\ params = <<>>
    /\ url = NoUrl
    /\ request_params = <<>>
    /\ ppc = "done"
    /\ demanded = FALSE
    /\ response_data = <<>>
    /\ item_idx = 1
    /\ yielded = <<>>
    /\ requests = <<>>

CollectorRest ==
    /\ collector = "macros"
    /\ args = [include_comments |-> FALSE, active_only |-> FALSE, include_deleted |-> FALSE]
    /\ listing = [k \in {"macros"} |-> <<<<>>>>]
    /\ phase = 1
    /\ cpc = "done"
    /\ page = 0
    /\ idx = 0
    /\ current = EmptyObject
    /\ derived = EmptyDict
    /\ todo = <<>>
    /\ caches = EmptyCaches
    /\ collected = <<>>
    /\ returned = <<>>
    /\ lookups = <<>>
    /\ resolutions = <<>>
    /\ listed = <<>>
    /\ stats = <<>>
    /\ all_data = <<>>

\* Threads calling wait_if_needed on one RateLimiter while the clock advances.
LimiterInit == LimiterStart /\ RetryRest /\ PaginatorRest /\ CollectorRest

NextLimiter == Tick \/ wait_if_needed

SpecLimiter == LimiterInit /\ [][NextLimiter]_vars

\* The same with a clock that advances and threads that run: while some
\* thread can take a step of wait_if_needed (the holder of the lock, a sleeper
\* whose time.sleep is over, a caller at a free lock), one of them does.
SpecLimiterFair ==
    LimiterInit /\ [][NextLimiter]_vars /\ WF_vars(Tick) /\ WF_vars(wait_if_needed)

\* One call of a decorated function, and of ZendeskClient.get above it.
RetryInit == RetryStart /\ LimiterRest /\ PaginatorRest /\ CollectorRest

NextRetry == Call \/ Attempt \/ Backoff \/ LimitRequest \/ Get

SpecRetry == RetryInit /\ [][NextRetry]_vars

\* One run of get_paginated over a listing of the server, record by record.
PaginateInit == PaginatorStart /\ LimiterRest /\ RetryRest /\ CollectorRest

get_paginated == Demand \/ Fetch \/ FetchFails \/ Yield \/ Advance \/ Exhausted

NextPaginate == get_paginated

SpecPaginate == PaginateInit /\ [][NextPaginate]_vars

\* One run of a collector's collect_all over the listing(s) of the server, and
\* for tickets get_statistics on what it returned.
CollectInit == CollectorStart /\ LimiterRest /\ RetryRest /\ PaginatorRest

NextCollect ==
    \/ collect_all
    \/ FetchPage
    \/ FetchPageFails
    \/ NextRecord
    \/ Resolve
    \/ AppendRecord
    \/ Finish
    \/ get_statistics

SpecCollect == CollectInit /\ [][NextCollect]_vars

\* The same run when the process keeps running: collect_all is sequential code
\* whose every request returns or raises (the session's requests carry a
\* timeout), so a step that can be taken is taken.
SpecCollectFair == CollectInit /\ [][NextCollect]_vars /\ WF_vars(NextCollect)

\* One run of the `all` command: the six collectors one after the other, each
\* over its own listing.
AllInit ==
    /\ CollectInit
    /\ collector = AllOrder[1]
    /\ listing \in ListingsOfAll(collector)

NextAll ==
    \/ collect_all
    \/ FetchPage
    \/ FetchPageFails
    \/ NextRecord
    \/ Resolve
    \/ AppendRecord
    \/ Finish
    \/ all

SpecAll == AllInit /\ [][NextAll]_vars

\* ------------------------------------------------------- claims: RateLimiter

\* C8: a call to wait_if_needed made while fewer than requests_per_minute
\* recorded calls lie within the last 60 seconds performs no sleep: it neither
\* has slept when it returns nor is it sleeping.
C8_NoDelayBelowLimit ==
    /\ \A i \in DOMAIN calls :
          calls[i].in_window < requests_per_minute => calls[i].slept = 0
    /\ \A t \in Threads :
          lpc[t] = "sleeping" => seen[t].in_window >= requests_per_minute

\* C8 happens: a call found the queue at the limit before eviction, fewer than
\* the limit within the window, and returned without sleeping.
C8_Witness ==
    \E i \in DOMAIN calls :
        /\ calls[i].qlen >= requests_per_minute
        /\ calls[i].in_window < requests_per_minute
        /\ calls[i].slept = 0

\* C9: a call to wait_if_needed made while requests_per_minute recorded calls
\* lie within the last 60 seconds returns no earlier than 60 seconds after the
\* oldest recorded call.
C9_DelayedUntilOldestExpires ==
    \A i \in DOMAIN calls :
        calls[i].in_window >= requests_per_minute =>
            /\ calls[i].head # NoTime
            /\ calls[i].released >= calls[i].head + Window

\* C9 happens: a call found the window full, slept and returned.
C9_Witness ==
    \E i \in DOMAIN calls :
        /\ calls[i].in_window >= requests_per_minute
        /\ calls[i].slept > 0
        /\ calls[i].released >= calls[i].head + Window

\* The calls released in the 60 seconds that start with the release of call i.
ReleasedWithin(i) ==
    {j \in DOMAIN calls :
        /\ calls[j].released >= calls[i].released
        /\ calls[j].released < calls[i].released + Window}

\* C10: in any rolling 60-second interval at most requests_per_minute calls
\* are released, a call's release being the moment it returns.
C10_AtMostLimitPerWindow ==
    \A i \in DOMAIN calls : Cardinality(ReleasedWithin(i)) <= requests_per_minute

\* b ends with a.
IsSuffix(a, b) == Len(a) <= Len(b) /\ SubSeq(b, Len(b) - Len(a) + 1, Len(b)) = a

\* At most one thread is inside wait_if_needed, and it holds the lock.
OneInCriticalSection ==
    /\ Cardinality({t \in Threads : lpc[t] # "idle"}) <= 1
    /\ \A t \in Threads : lpc[t] # "idle" => lock = t

\* The timestamp queue is in non-decreasing time order.
QueueInTimeOrder ==
    \A i, j \in DOMAIN request_times : i <= j => request_times[i] <= request_times[j]

\* A step in which a call returns appends that call's timestamp, once, to what
\* is left of the queue; any other step appends nothing.
RecordsOnce ==
    IF Len(calls') = Len(calls) + 1
    THEN \E k \in 0..Len(request_times) :
            request_times' =
              Append(SubSeq(request_times, k + 1, Len(request_times)),
                     calls'[Len(calls')].now)
    ELSE IsSuffix(request_times', request_times)

\* C20: under concurrent calls to wait_if_needed from several threads the
\* check-evict-wait-record sequences of two calls never interleave: at most
\* one thread is between entering the locked body and appending its
\* timestamp (reading the clock lies in between), the timestamp queue stays in
\* non-decreasing time order, and every call's timestamp is recorded exactly
\* once.
C20_CallsDoNotInterleave ==
    /\ [](OneInCriticalSection /\ QueueInTimeOrder)
    /\ [][RecordsOnce]_vars

\* C20 happens: two threads have made calls, one of which slept holding the
\* lock, and a thread is inside wait_if_needed again.
C20_Witness ==
    /\ \E i, j \in DOMAIN calls :
          /\ calls[i].thread # calls[j].thread
          /\ calls[j].slept > 0
    /\ \E t \in Threads : lpc[t] # "idle"

\* ----------------------------------------- claims: client and retry wrapper

\* C2: every network call of ZendeskClient is preceded by one run of
\* RateLimiter.wait_if_needed: the throttle has run once per request attempt.
C2_EveryRequestThrottled ==
    wrapped = "_make_request" => throttle_calls = net_calls

\* The function failed with a network-layer error (a connection error or a
\* timeout) on this invocation.
NetworkError(o) == o.kind = "raise" /\ o.cls \in {"ConnectionError", "Timeout"}

AllNetworkErrors ==
    outcomes # <<>> /\ \A i \in DOMAIN outcomes : NetworkError(outcomes[i])

\* C3: under the retry wrapper, a function that raises a network-layer error
\* on every invocation is invoked exactly retry_attempts times before an error
\* reaches the caller: never more, and the error reaches the caller exactly
\* when the retry_attempts-th invocation has failed.
C3_InvokedExactlyRetryAttempts ==
    (decorator = "__call__" /\ AllNetworkErrors) =>
        /\ func_calls <= retry_attempts
        /\ rpc \in {"backoff", "attempt", "raised"}
        /\ (rpc = "raised") = (func_calls = retry_attempts)
        /\ rpc = "raised" => delivered.kind = "raise"

\* C3 happens: several attempts were allowed, each failed at the network layer,
\* and the error reached the caller after the last of them.
C3_Witness ==
    /\ decorator = "__call__"
    /\ AllNetworkErrors
    /\ retry_attempts > 1
    /\ func_calls = retry_attempts
    /\ rpc = "raised"

\* C4: when the API answers a ZendeskClient request with 429 while attempts
\* remain, the client sleeps at least Retry-After seconds (60 without the
\* header) and issues the request again; the call does not end after that
\* attempt.
C4_RateLimitRetried ==
    (wrapped = "_make_request" /\ rpc \in {"returned", "raised"}) =>
        \A i \in DOMAIN net_log :
            (net_log[i].status_code = 429 /\ i < retry_attempts) =>
                /\ Len(net_log) > i
                /\ \E k \in DOMAIN sleeps :
                     /\ sleeps[k].kind = "rate_limit"
                     /\ sleeps[k].attempt = i
                     /\ sleeps[k].secs >= RetryAfter(net_log[i])

\* C5: a ZendeskClient request whose network call fails with a timeout or a
\* connection error is retried: an error reaches the caller only when all
\* retry_attempts attempts are used up.
C5_NetworkFailureRetried ==
    (/\ wrapped = "_make_request"
     /\ rpc = "raised"
     /\ \E i \in DOMAIN net_log : net_log[i].kind = "exception")
        => net_calls = retry_attempts

\* C6: when every allowed attempt has failed, the caller receives the last
\* error the wrapped function raised, unchanged: the same kind of error with
\* the same status code.
C6_LastErrorUnchanged ==
    (/\ decorator = "__call__"
     /\ rpc = "raised"
     /\ func_calls = retry_attempts
     /\ \A i \in DOMAIN outcomes : outcomes[i].kind = "raise")
        => /\ delivered.cls = outcomes[Len(outcomes)].cls
           /\ delivered.status_code = outcomes[Len(outcomes)].status_code

\* The first invocation raised a non-retryable API error: 401, 403 or 404.
FirstIsNonRetryable ==
    /\ outcomes # <<>>
    /\ outcomes[1].kind = "raise"
    /\ outcomes[1].cls = "ZendeskAPIError"
    /\ outcomes[1].status_code \in {401, 403, 404}

\* The first response was a success whose body is no JSON.
FirstIsUndecodable ==
    /\ wrapped = "_make_request"
    /\ net_log # <<>>
    /\ net_log[1].kind = "response"
    /\ net_log[1].status_code \in {200, 201, 204}
    /\ ~net_log[1].json

\* C7: a call that raises a non-retryable error (401, 403, 404, or a JSON
\* decode error in get) is invoked exactly once, and the error reaches the
\* caller at once, unchanged, without any sleep and without another attempt.
C7_NonRetryableOnce ==
    /\ (decorator = "__call__" /\ FirstIsNonRetryable) =>
          /\ rpc = "raised"
          /\ func_calls = 1
          /\ sleeps = <<>>
          /\ delivered = outcomes[1]
          /\ wrapped = "_make_request" =>
                /\ net_calls = 1
                /\ get_result \in {Nothing, outcomes[1]}
    /\ FirstIsUndecodable =>
          /\ rpc = "returned"
          /\ func_calls = 1
          /\ net_calls = 1
          /\ sleeps = <<>>
          /\ get_result \in {Nothing, Raise("ZendeskAPIError", NoStatus, NoHeader)}

\* C7 happens: the client got a 404 on its first attempt with further attempts
\* allowed, and get has raised it.
C7_Witness ==
    /\ wrapped = "_make_request"
    /\ retry_attempts > 1
    /\ net_log # <<>>
    /\ net_log[1].status_code = 404
    /\ func_calls = 1
    /\ get_result = Raise("ZendeskAPIError", 404, NoHeader)

\* C17: the transport maps each response by its status code alone: for 200,
\* 201 and 204 _make_request returns the response as it came; for 401, 403,
\* 404, 429, every status from 500 and every other status it raises an error
\* whose status_code is the status of the response and which carries that
\* response (here: its status and headers); for a failure at the network layer
\* it raises an error without a status code.
C17_OutcomeByStatus ==
    wrapped = "_make_request" =>
        \A i \in DOMAIN net_log :
            LET n == net_log[i]
                o == outcomes[i]
            IN /\ (n.kind = "response" /\ n.status_code \in {200, 201, 204}) =>
                     /\ o.kind = "return" /\ o.cls = "Response"
                     /\ o.status_code = n.status_code
                     /\ o.retry_after = n.retry_after /\ o.json = n.json
               /\ (n.kind = "response" /\ n.status_code \notin {200, 201, 204}) =>
                     /\ o.kind = "raise" /\ o.cls = "ZendeskAPIError"
                     /\ o.status_code = n.status_code
                     /\ o.retry_after = n.retry_after
               /\ n.kind = "exception" =>
                     /\ o.kind = "raise" /\ o.cls = "ZendeskAPIError"
                     /\ o.status_code = NoStatus

\* C17 happens: the server answered 503 and _make_request raised an error
\* with status 503.
C17_Witness ==
    /\ wrapped = "_make_request"
    /\ \E i \in DOMAIN net_log :
          /\ net_log[i].kind = "response" /\ net_log[i].status_code = 503
          /\ outcomes[i].kind = "raise" /\ outcomes[i].status_code = 503

\* ------------------------------------------------------ claims: paginator

\* The list-valued fields of a page, by their positions in the body.
ListFields(fields) == {i \in DOMAIN fields : fields[i].val.t = "list"}

\* Every page of the listing has exactly one list-valued field.
ChainOfOneList == \A k \in DOMAIN pages : Cardinality(ListFields(pages[k].fields)) = 1

\* The elements of the pages k.. of such a listing, in page order.
RECURSIVE ConcatFrom(_)
ConcatFrom(k) ==
    IF k > Len(pages) THEN <<>>
    ELSE LET i == CHOOSE i \in ListFields(pages[k].fields) : TRUE
         IN pages[k].fields[i].val.items \o ConcatFrom(k + 1)

IsPrefix(a, b) == Len(a) <= Len(b) /\ SubSeq(b, 1, Len(a)) = a

\* C1: over a finite chain of pages with exactly one list-valued field each,
\* whose last page has next_page null or absent, get_paginated yields the
\* concatenation of the pages' lists in page order and in within-page order,
\* and ends: the i-th request names page i, what is yielded is always a prefix
\* of the concatenation, and unless a request fails the generator ends after
\* one request per page with the whole concatenation yielded.
C1_YieldsConcatenation ==
    ChainOfOneList =>
        /\ IsPrefix(yielded, ConcatFrom(1))
        /\ Len(requests) <= Len(pages)
        /\ \A i \in DOMAIN requests : ServerPageOf(requests[i]) = i
        /\ ppc = "done" => yielded = ConcatFrom(1) /\ Len(requests) = Len(pages)
        /\ (Len(requests) = Len(pages) /\ yielded = ConcatFrom(1) /\ demanded)
              => ppc \in {"yield", "done", "raised"}

\* C1 happens: the generator has ended after a listing of several pages, sent
\* as absolute URLs, with more than two records yielded.
C1_Witness ==
    /\ ChainOfOneList
    /\ Len(pages) > 1
    /\ url_form = "abs"
    /\ ppc = "done"
    /\ Len(yielded) > 2
    /\ yielded = ConcatFrom(1)

\* Every page of the listing has at most one list-valued field.
AtMostOneList == \A k \in DOMAIN pages : Cardinality(ListFields(pages[k].fields)) <= 1

\* The records of page k of such a listing: none when it has no list.
ListOf(k) ==
    IF ListFields(pages[k].fields) = {} THEN <<>>
    ELSE pages[k].fields[CHOOSE i \in ListFields(pages[k].fields) : TRUE].val.items

\* The records of the pages 1..k, in page order.
RECURSIVE ConcatTo(_)
ConcatTo(k) == IF k = 0 THEN <<>> ELSE ConcatTo(k - 1) \o ListOf(k)

\* The generator is reading a page whose body has no list-valued field.
ReadingPageWithoutList ==
    /\ ppc = "yield"
    /\ ListFields(pages[Len(requests)].fields) = {}

\* C18: when a page body has no list-valued field, get_paginated yields no
\* record for that page (while it reads the page, and when it has left it,
\* what is yielded are the records of the other pages), raises no error on
\* it, and still requests the page next_page names when there is one: from
\* such a page the generator moves on to the request for the next page, or
\* ends when there is none, so that a generator that ended has requested
\* every page.
C18_PageWithoutList ==
    /\ [](AtMostOneList =>
            /\ ReadingPageWithoutList => yielded = ConcatTo(Len(requests) - 1)
            /\ ppc = "done" => (yielded = ConcatTo(Len(pages)) /\ Len(requests) = Len(pages))
            /\ \A i \in DOMAIN requests : ServerPageOf(requests[i]) = i)
    /\ [][ReadingPageWithoutList =>
            /\ yielded' = yielded
            /\ ppc' \in {"yield", "request", "done"}
            /\ ppc' = "request" =>
                  ServerPageOf(RequestFor(url', request_params')) = Len(requests) + 1
            /\ ppc' = "done" => Len(requests) = Len(pages)]_vars

\* C18 happens: the generator has ended after a first page without a list and
\* a later page with records, which it yielded.
C18_Witness ==
    /\ AtMostOneList
    /\ Len(pages) > 1
    /\ ListFields(pages[1].fields) = {}
    /\ ppc = "done"
    /\ Len(requests) = Len(pages)
    /\ yielded # <<>>

\* ------------------------------------------------------ claims: collectors

\* The positions in the histories that concern the related object (via, id).
RequestsFor(via, id) ==
    {i \in DOMAIN lookups : lookups[i].endpoint = via /\ lookups[i].id = id}
ResolutionsOf(via, id) ==
    {i \in DOMAIN resolutions : resolutions[i].via = via /\ resolutions[i].id = id}

\* The request for (via, id) failed with ZendeskAPIError.
LookupFailed(via, id) == \E i \in RequestsFor(via, id) : ~lookups[i].ok

\* The organization ids resolved so far (None, written 0, is no id).
ResolvedOrganizations ==
    {resolutions[i].id : i \in {j \in DOMAIN resolutions :
                                     resolutions[j].via = "organizations"}} \ {0}

\* C11: within one TicketsCollector or UsersCollector, however often an
\* organization_id has been resolved, exactly one /organizations/{id}.json
\* request was issued for it, whether it succeeded or failed: the first
\* resolution sends it and no later one does. After a failed request the id is
\* cached as the empty object and every resolution returned the empty object.
C11_OneOrganizationRequest ==
    collector \in {"tickets", "users"} =>
        \A o \in ResolvedOrganizations :
            LET R == ResolutionsOf("organizations", o)
                L == RequestsFor("organizations", o)
            IN /\ Cardinality(L) = 1
               /\ \A j \in R : resolutions[j].requested <=> (\A k \in R : j <= k)
               /\ LookupFailed("organizations", o) =>
                    /\ o \in DOMAIN caches["organizations_cache"]
                    /\ caches["organizations_cache"][o] = EmptyObject
                    /\ \A j \in R : resolutions[j].value = EmptyObject

\* C11 happens: a collector resolved one organization twice after its request
\* had failed.
C11_Witness ==
    /\ collector \in {"tickets", "users"}
    /\ \E o \in ResolvedOrganizations :
          /\ LookupFailed("organizations", o)
          /\ Cardinality(ResolutionsOf("organizations", o)) >= 2

\* C12: in every collector, for every related-entity kind resolved during
\* enrichment (users, organizations, groups, ticket field definitions), at most
\* one request is issued per distinct id within one run; in particular the
\* GroupsCollector asks at most once for a user who is a member of several
\* groups.
C12_AtMostOneLookupPerId ==
    \A via \in ObjectVias :
        \A i, j \in DOMAIN lookups :
            (lookups[i].endpoint = via /\ lookups[j].endpoint = via
             /\ lookups[i].id = lookups[j].id) => i = j

\* The primary listing was answered on every page so far.
ListingAnswered == ~\E i \in DOMAIN lookups : lookups[i].endpoint = "listing" /\ ~lookups[i].ok

\* The records the listing yielded, in fetch order.
ListedRecords == [i \in DOMAIN listed |-> listed[i].rec]

\* The records of a list of enriched records.
RecordsOf(es) == [i \in DOMAIN es |-> es[i].rec]

\* The enriched records of a partition, whatever their key.
Entries(d) == UNION {{d[k][i] : i \in DOMAIN d[k]} : k \in DOMAIN d}

\* C13: when TicketsCollector.collect_all returns after a listing that was
\* answered to its end, the result is a partition of the yielded tickets:
\* under each key are exactly the yielded tickets with that status, in fetch
\* order, and every yielded ticket is in the result exactly once. Tickets that
\* share a requester_id carry the same requester_info, and that user was
\* asked for exactly once.
C13_PartitionByStatus ==
    (collector = "tickets" /\ cpc = "done" /\ ListingAnswered) =>
        /\ \A k \in DOMAIN returned \ {"unknown"} :
              RecordsOf(returned[k]) =
                SelectSeq(ListedRecords, LAMBDA t : "status" \in DOMAIN t /\ t.status = k)
        /\ \A i \in DOMAIN listed :
              Cardinality({p \in UNION {{<<k, j>> : j \in DOMAIN returned[k]} :
                                          k \in DOMAIN returned} :
                             returned[p[1]][p[2]].rec = listed[i].rec}) = 1
        /\ \A i \in DOMAIN listed :
              "status" \in DOMAIN listed[i].rec => listed[i].rec.status \in DOMAIN returned
        /\ \A a, b \in Entries(returned) :
              a.rec.requester_id = b.rec.requester_id =>
                  a.derived["requester_info"] = b.derived["requester_info"]
        /\ \A a \in Entries(returned) :
              a.rec.requester_id # 0 =>
                  Cardinality(RequestsFor("users", a.rec.requester_id)) = 1

\* C13 happens: two tickets of one requester were collected under two
\* statuses, the requester resolved to a user.
C13_Witness ==
    /\ collector = "tickets" /\ cpc = "done" /\ ListingAnswered
    /\ \E a, b \in Entries(returned) :
          /\ a.rec.id # b.rec.id
          /\ GetOr(a.rec, "status", "") = "open"
          /\ GetOr(b.rec, "status", "") = "solved"
          /\ a.rec.requester_id = b.rec.requester_id
          /\ a.derived["requester_info"] = Obj("users", a.rec.requester_id)

\* A request of the primary listing failed with ZendeskAPIError.
ListingFailed == \E i \in DOMAIN lookups : lookups[i].endpoint = "listing" /\ ~lookups[i].ok

\* C14: for the tickets, users, organizations, macros and groups collectors,
\* once a request of the primary listing has failed with an API error (also on
\* a page after pages that were fetched and enriched), collect_all has
\* returned, and what it returned is empty: none of the records collected
\* before the failure.
C14_EmptyAfterListingError ==
    (collector # "knowledge_base" /\ ListingFailed) =>
        /\ cpc = "done"
        /\ returned = <<>>

\* C14 happens: the request for a later page failed after a record of an
\* earlier page had been enriched with a lookup, and collect_all returned.
C14_Witness ==
    /\ collector \in {"tickets", "users", "organizations", "groups"}
    /\ cpc = "done"
    /\ \E i \in DOMAIN lookups :
          /\ lookups[i].endpoint = "listing" /\ ~lookups[i].ok
          /\ lookups[i].id >= 2
          /\ lookups[i].record >= 1
          /\ \E j \in 1..(i - 1) : lookups[j].endpoint # "listing" /\ lookups[j].ok

\* C15: in KnowledgeBaseCollector.collect_all, when a request of the primary
\* listing of one kind (categories, sections, articles) has failed with an API
\* error, on whatever page, the result returned for that kind is empty.
C15_FailedKindIsEmpty ==
    collector = "knowledge_base" =>
        \A i \in DOMAIN lookups :
            (lookups[i].endpoint = "listing" /\ ~lookups[i].ok) =>
                returned[lookups[i].of] = <<>>

\* What a relation to (via, id) is expected to hold: {} for a missing id or
\* after its lookup failed, the object of the server otherwise.
Expected(via, id) ==
    IF id = 0 \/ LookupFailed(via, id) THEN EmptyObject ELSE Obj(via, id)

\* The comments a ticket is expected to carry: [] after the comments request
\* failed, else the server's comments, each with its author's name (0 stands
\* for 'Unknown', the name of an author that could not be resolved).
ExpectedComments(ticket_id) ==
    IF LookupFailed("comments", ticket_id) THEN <<>>
    ELSE [j \in DOMAIN CommentsOf(ticket_id) |->
            [CommentsOf(ticket_id)[j] EXCEPT
               !.author_name = Expected("users", CommentsOf(ticket_id)[j].author_id).id]]

\* The tickets collected so far, or returned.
TicketsOut == IF cpc = "done" THEN returned ELSE collected

\* C16: during ticket enrichment an API error from one related lookup
\* (comments, requester, assignee, organization, group, a custom-field
\* definition) leaves the ticket in the collected result with that relation at
\* its empty placeholder ([] for comments, {} for the others; a custom field
\* keeps its value under the fallback title), every other relation of the
\* ticket resolved as its own lookup answered, and the collection going: as
\* long as the listing is answered, every ticket whose enrichment is over is
\* in the result.
C16_LookupErrorDegrades ==
    collector = "tickets" =>
        /\ ListingAnswered =>
              Cardinality(Entries(TicketsOut)) =
                Len(listed) - (IF cpc = "enriching" THEN 1 ELSE 0)
        /\ \A e \in Entries(TicketsOut) :
              /\ args.include_comments =>
                    e.derived["comments"] = ExpectedComments(e.rec.id)
              /\ e.derived["requester_info"] = Expected("users", e.rec.requester_id)
              /\ e.derived["assignee_info"] = Expected("users", e.rec.assignee_id)
              /\ e.derived["organization_info"] =
                    Expected("organizations", e.rec.organization_id)
              /\ e.derived["group_info"] = Expected("groups", e.rec.group_id)
              /\ e.rec.custom_fields # <<>> =>
                    e.derived["custom_fields_processed"] =
                      SelectSeq([j \in DOMAIN e.rec.custom_fields |->
                                   [id |-> e.rec.custom_fields[j].id,
                                    titled |-> ~LookupFailed("ticket_fields",
                                                             e.rec.custom_fields[j].id),
                                    value |-> e.rec.custom_fields[j].value]],
                                LAMBDA f : f.value # None)

\* The ticket with id n is in the result with its lookup of (via, id) failed,
\* at the placeholder, and its organization resolved.
DegradedTicket(n, rel, via, id) ==
    \E e \in Entries(TicketsOut) :
        /\ e.rec.id = n
        /\ LookupFailed(via, id)
        /\ e.derived[rel] = (IF rel = "comments" THEN <<>> ELSE EmptyObject)
        /\ e.derived["organization_info"] = Obj("organizations", 20)

\* C16 happens: the first ticket lost its comments, or its requester, to an
\* API error, kept its organization, and the ticket after it was collected.
C16_Witness ==
    /\ collector = "tickets"
    /\ \E e \in Entries(TicketsOut) : e.rec.id = 2
    /\ \/ DegradedTicket(1, "comments", "comments", 1)
       \/ DegradedTicket(1, "requester_info", "users", 10)

\* The sum of a dict of numbers.
RECURSIVE SumOf(_, _)
SumOf(f, keys) ==
    IF keys = {} THEN 0
    ELSE LET k == CHOOSE x \in keys : TRUE IN f[k] + SumOf(f, keys \ {k})

\* The tickets the statistics are about: what collect_all returned holds the
\* yielded tickets when the listing was answered, and nothing otherwise.
TicketsReturned == IF ListingAnswered THEN DOMAIN listed ELSE {}

\* C19: get_statistics on the partition collect_all returned reports
\* total_tickets equal to the number of tickets, by_status with the key set of
\* the partition and each key's list size (so its counts sum to
\* total_tickets), and with_organization equal to the number of tickets that
\* have an organization_id.
C19_StatisticsCount ==
    (collector = "tickets" /\ stats # <<>>) =>
        /\ stats.total_tickets = Cardinality(TicketsReturned)
        /\ DOMAIN stats.by_status = DOMAIN returned
        /\ \A k \in DOMAIN returned : stats.by_status[k] = Len(returned[k])
        /\ SumOf(stats.by_status, DOMAIN stats.by_status) = stats.total_tickets
        /\ stats.with_organization =
              Cardinality({i \in TicketsReturned : listed[i].rec.organization_id # 0})

\* C19 happens: statistics over an open and a solved ticket, one of them with
\* an organization.
C19_Witness ==
    /\ collector = "tickets"
    /\ stats # <<>>
    /\ stats.total_tickets = 2
    /\ stats.by_status = [open |-> 1, solved |-> 1]
    /\ stats.with_organization = 1

\* The listing requests among the lookups, and the one for the page before.
ListingRequests == {i \in DOMAIN lookups : lookups[i].endpoint = "listing"}
PreviousPage(i) ==
    {j \in ListingRequests : /\ lookups[j].of = lookups[i].of
                             /\ lookups[j].id + 1 = lookups[i].id}

\* The step sends a request for a page of the primary listing.
RequestsPage ==
    /\ Len(lookups') = Len(lookups) + 1
    /\ lookups'[Len(lookups')].endpoint = "listing"

\* C21: within one collector run the requests follow the records: no request
\* made for record N comes after a request made for record N+1; the request
\* for a page comes after the previous page's request and after every record
\* of the previous page was handed out; and a page is requested, or the next
\* record begun, only while no record is being enriched and no lookup of the
\* last record is outstanding.
C21_OneRecordAtATime ==
    /\ [](/\ \A i, j \in DOMAIN lookups : i < j => lookups[i].record <= lookups[j].record
          /\ \A i \in ListingRequests :
                \A j \in PreviousPage(i) :
                    /\ j < i
                    /\ lookups[i].record - lookups[j].record
                         = Len(listing[lookups[i].of][lookups[j].id])
          /\ cpc = "fetching" => todo = <<>> /\ current = EmptyObject)
    /\ [][(RequestsPage \/ listed' # listed) =>
             /\ cpc = "fetching"
             /\ todo = <<>>
             /\ current = EmptyObject
             /\ PageUsedUp \/ ~RequestsPage]_vars

\* C21 happens: the first record was enriched with a request of its own, then
\* the second page was requested, then the second record was enriched.
C21_Witness ==
    \E i \in ListingRequests :
        /\ lookups[i].id = 2
        /\ \E j, k \in DOMAIN lookups :
              /\ j < i /\ i < k
              /\ lookups[j].endpoint # "listing" /\ lookups[j].record = 1
              /\ lookups[k].endpoint # "listing" /\ lookups[k].record = 2


\* The transitions of a collector run.
RunTransitions ==
    {<<"idle", "fetching">>, <<"fetching", "enriching">>,
     <<"enriching", "fetching">>, <<"fetching", "done">>}

\* The records the loop body did not skip, and the records in a result.
KeptRecords(kind) ==
    {listed[i].rec : i \in {j \in DOMAIN listed :
                              listed[j].kind = kind /\ ~Skipped(listed[j].rec)}}
RecordsIn(result) ==
    IF collector \in {"tickets", "users"}
    THEN {e.rec : e \in Entries(result)}
    ELSE {result[i].rec : i \in DOMAIN result}

DerivedKeys ==
    {"requester_info", "assignee_info", "organization_info", "group_info", "comments",
     "custom_fields_processed", "groups_info", "statistics", "users_info", "agents_info",
     "author_info", "section_info", "category_info"}

\* The enriched records of the run: the one in the making, the ones collected
\* and the ones returned.
ElementsOf(r) == {r[i] : i \in DOMAIN r}
AllEnriched ==
    (IF cpc = "enriching" THEN {Enriched(current, derived)} ELSE {})
    \cup (IF collector \in {"tickets", "users"} THEN Entries(collected)
          ELSE ElementsOf(collected))
    \cup (IF collector \in {"tickets", "users", "knowledge_base"} THEN Entries(returned)
          ELSE ElementsOf(returned))

\* C23: every enriched record is a record the listing yielded with all the
\* fields it had, the id among them, at their values, and the keys it has
\* beyond those are derived keys.
C23_EnrichmentOnlyAdds ==
    \A e \in AllEnriched :
        /\ \E i \in DOMAIN listed : listed[i].rec = e.rec
        /\ DOMAIN e.rec \subseteq DOMAIN AsDict(e)
        /\ \A k \in DOMAIN e.rec : AsDict(e)[k] = e.rec[k]
        /\ AsDict(e).id = e.rec.id
        /\ DOMAIN AsDict(e) \ DOMAIN e.rec \subseteq DerivedKeys

\* C23 happens: a ticket with an organization and custom fields was returned
\* with its six derived keys.
C23_Witness ==
    /\ collector = "tickets"
    /\ cpc = "done"
    /\ \E e \in AllEnriched :
          /\ e.rec.organization_id # 0
          /\ DOMAIN AsDict(e) \ DOMAIN e.rec =
               {"requester_info", "assignee_info", "organization_info", "group_info",
                "comments", "custom_fields_processed"}

\* The caches filled by lookups (categories_cache and sections_cache are
\* filled from the knowledge base's own listings).
LookupCaches ==
    {"users_cache", "organizations_cache", "groups_cache", "custom_fields_cache",
     "user_stats_cache"}

\* C24: an entry of a collector's lookup cache is never removed or replaced;
\* and after the lookup that asked the server for a cached id, every later
\* resolution of that id returns the value that lookup stored, without a
\* request: also when the lookup had failed and stored the empty object.
C24_CacheEntriesStay ==
    /\ [][\A n \in LookupCaches :
            \A id \in DOMAIN caches[n] :
                /\ id \in DOMAIN caches'[n]
                /\ caches'[n][id] = caches[n][id]]_vars
    /\ [](\A i, j \in DOMAIN resolutions :
            (/\ i < j
             /\ resolutions[i].via = resolutions[j].via
             /\ resolutions[i].id = resolutions[j].id
             /\ resolutions[i].requested
             /\ CacheOf(collector, resolutions[i].via) # None) =>
                /\ ~resolutions[j].requested
                /\ resolutions[j].value = resolutions[i].value
                /\ resolutions[i].id \in DOMAIN caches[CacheOf(collector, resolutions[i].via)]
                /\ caches[CacheOf(collector, resolutions[i].via)][resolutions[i].id]
                     = resolutions[i].value)

\* C24 happens: the request for a user failed, the empty object was cached,
\* and a later resolution of the same user returned the empty object without
\* a request.
C24_Witness ==
    \E i, j \in DOMAIN resolutions :
        /\ i < j
        /\ resolutions[i].via = "users" /\ resolutions[j].via = "users"
        /\ resolutions[i].id = resolutions[j].id
        /\ resolutions[i].requested /\ resolutions[i].value = EmptyObject
        /\ ~resolutions[j].requested /\ resolutions[j].value = EmptyObject
        /\ CacheOf(collector, "users") # None

\* ------------------------------------------------- claims: the all command

\* The collectors whose collect_all has returned in the run, in order.
Attempted == [i \in DOMAIN all_data |-> all_data[i].collector]

\* C25: in the `all` run the collectors are attempted in the order tickets,
\* users, organizations, knowledge base, macros, groups; and when the
\* collect_all of any but the last has returned, whatever it returned and
\* whether or not its primary listing had failed, the step that follows
\* builds the next collector of that order, ready to be run.
C25_AllKindsAttempted ==
    /\ [](/\ Len(Attempted) <= 6
          /\ Attempted = SubSeq(<<"tickets", "users", "organizations", "knowledge_base",
                                  "macros", "groups">>, 1, Len(Attempted))
          /\ Len(Attempted) < 6 =>
                collector = <<"tickets", "users", "organizations", "knowledge_base",
                              "macros", "groups">>[Len(Attempted) + 1])
    /\ [][(cpc = "done" /\ Len(Attempted) < 5) =>
             /\ Len(all_data') = Len(all_data) + 1
             /\ cpc' = "idle"
             /\ caches' = EmptyCaches]_vars

\* C25 happens: the listings of tickets and of organizations failed, both
\* returned nothing, and groups was collected after them.
C25_Witness ==
    /\ Len(all_data) = 6
    /\ all_data[1].failed
    /\ all_data[3].failed
    /\ all_data[6].collector = "groups" /\ ~all_data[6].failed
    /\ returned # <<>>

\* ------------------------------------------ claims: RateLimiter, the queue

\* C26: whenever no call is inside wait_if_needed (every call made so far has
\* returned), the timestamp queue holds at most requests_per_minute entries.
C26_QueueWithinLimit ==
    lock = 0 => Len(request_times) <= requests_per_minute

\* C27: the timestamp a call appended, the last of the queue when the call has
\* just returned, is not earlier than the end of the sleep the call performed
\* (the time it read plus the time it slept).
C27_TimestampAfterWait ==
    calls # <<>> =>
        /\ request_times # <<>>
        /\ request_times[Len(request_times)]
             >= calls[Len(calls)].now + calls[Len(calls)].slept

\* ------------------------------------- claims: paginator, requests and laziness

\* The next_page URL the generator read from the answer to its request i.
NextUrlSeen(i) == NextPageOf(ServerBody(ServerPageOf(requests[i]), requests[i]))

\* C28: the first request of get_paginated goes to the endpoint with the
\* caller's params; every later request goes to the path of the next_page URL
\* read from the page before (under the base URL, the /api/v2 of an absolute
\* URL removed) with exactly the query parameters of that URL, each one-valued
\* parameter sent once with its value; and once a page has been read the local
\* request_params are empty.
C28_ParamsOnlyOnFirstRequest ==
    /\ \A i \in DOMAIN requests :
          IF i = 1
          THEN requests[i] = [path |-> ApiPrefix \o Endpoint.path, query |-> params]
          ELSE /\ requests[i].path =
                    ApiPrefix \o (IF NextUrlSeen(i - 1).scheme = "https"
                                  THEN SubSeq(NextUrlSeen(i - 1).path, 3,
                                              Len(NextUrlSeen(i - 1).path))
                                  ELSE NextUrlSeen(i - 1).path)
               /\ requests[i].path = ApiPrefix \o ListPath
               /\ requests[i].query = NextUrlSeen(i - 1).query
    /\ (requests # <<>> /\ ppc = "request") => request_params = <<>>

\* C28 happens: a caller passed a filter, the server names the next pages by
\* relative URLs, which are requested with the local request_params, and the
\* third page has been requested.
C28_Witness ==
    /\ params # <<>>
    /\ url_form = "rel"
    /\ Len(requests) = 3
    /\ ppc = "yield"

\* The number of records the pages 1..k yield.
RECURSIVE YieldCount(_)
YieldCount(k) == IF k = 0 THEN 0 ELSE YieldCount(k - 1) + Len(PageItems(pages[k].fields))

\* C29: get_paginated is lazy and single-pass. A request is sent only while
\* the consumer is asking for a record, the first one not before the first
\* record is asked for, a later one only after every record of the pages
\* requested so far was handed over; the records handed over are always those
\* of the pages before the last requested and some of that page's; the i-th
\* request names page i, so no page is requested twice; and a generator that
\* ended has requested every page once.
C29_LazySinglePass ==
    /\ [](/\ requests = <<>> => yielded = <<>>
          /\ requests # <<>> =>
                /\ Len(yielded) >= YieldCount(Len(requests) - 1)
                /\ ppc # "raised" => Len(yielded) <= YieldCount(Len(requests))
          /\ \A i \in DOMAIN requests : ServerPageOf(requests[i]) = i
          /\ ppc = "done" => Len(requests) = Len(pages)
          /\ Len(requests) <= Len(pages))
    /\ [][requests' # requests =>
            /\ demanded
            /\ Len(requests') = Len(requests) + 1
            /\ Len(yielded) = YieldCount(Len(requests))]_vars

\* C29 happens: both records of the first page were consumed, the second page
\* was requested on the third demand, and its first record handed over.
C29_Witness ==
    /\ Len(requests) = 2
    /\ YieldCount(1) = 2
    /\ Len(yielded) = 3
    /\ ppc = "yield"
    /\ ~demanded

\* The page has two or more list-valued fields.
TwoLists(k) == Cardinality(ListFields(pages[k].fields)) >= 2

\* The elements of the list-valued field that comes first in the body of page
\* k (none when the page has no such field), and those of the fields after it.
FirstListOf(k) ==
    LET L == ListFields(pages[k].fields)
    IN IF L = {} THEN <<>>
       ELSE pages[k].fields[CHOOSE i \in L : \A j \in L : i <= j].val.items
LaterListsOf(k) ==
    LET L == ListFields(pages[k].fields)
    IN UNION {{pages[k].fields[i].val.items[n] : n \in DOMAIN pages[k].fields[i].val.items} :
                i \in {j \in L : \E h \in L : h < j}}

\* The first lists of the pages 1..k, in page order.
RECURSIVE ConcatFirstTo(_)
ConcatFirstTo(k) == IF k = 0 THEN <<>> ELSE ConcatFirstTo(k - 1) \o FirstListOf(k)

\* C30: of a page with two or more list-valued fields get_paginated yields
\* the elements of the first such field in the body's key order, and nothing
\* else: while it reads page n it has yielded the first lists of the pages
\* before and the elements of the first list of page n up to where it stands,
\* and when it has ended, the first lists of all pages. On a listing of one
\* such page no element of a later list is yielded.
C30_FirstListOnly ==
    /\ (ppc = "yield" /\ TwoLists(Len(requests))) =>
          yielded = ConcatFirstTo(Len(requests) - 1)
                      \o SubSeq(FirstListOf(Len(requests)), 1, item_idx - 1)
    /\ ppc = "done" => yielded = ConcatFirstTo(Len(pages))
    /\ (Len(pages) = 1 /\ TwoLists(1)) =>
          \A i \in DOMAIN yielded : yielded[i] \notin LaterListsOf(1)

\* C30 happens: the generator has ended after a page with two lists that came
\* after a page with one, and has yielded the records of both.
C30_Witness ==
    /\ Len(pages) = 2
    /\ ~TwoLists(1) /\ FirstListOf(1) # <<>>
    /\ TwoLists(2)
    /\ ppc = "done"
    /\ yielded = FirstListOf(1) \o FirstListOf(2)

\* ------------------------------------- claims: retry wrapper, the sleeps

\* The waits of tenacity between the attempts, in order.
BackoffWaits == SelectSeq(sleeps, LAMBDA s : s.kind = "backoff")

\* C31: tenacity waits once between two consecutive attempts, each wait is at
\* least 4 and at most 10 seconds, and no wait is shorter than the one before.
C31_BackoffWithinBounds ==
    /\ \A i \in DOMAIN BackoffWaits :
          /\ BackoffWaits[i].attempt = i
          /\ BackoffWaits[i].secs >= 4
          /\ BackoffWaits[i].secs <= 10
          /\ i > 1 => BackoffWaits[i - 1].secs <= BackoffWaits[i].secs
    /\ decorator = "__call__" =>
          Len(BackoffWaits) = (IF rpc \in {"idle", "backoff"} THEN attempt_number
                               ELSE attempt_number - 1)

\* C31 happens: four attempts have failed, and the wait after the fourth was
\* longer than the one after the third.
C31_Witness ==
    /\ Len(BackoffWaits) = 4
    /\ BackoffWaits[3].secs = 4
    /\ BackoffWaits[4].secs = 8

\* ------------------------------------------ claims: collectors, the records

\* The positions of the search requests made for user u.
SearchesFor(u) == {i \in DOMAIN lookups : lookups[i].endpoint = "search" /\ lookups[i].id = u}

\* The users of the result so far.
UsersOut ==
    Entries(IF cpc = "done" THEN returned ELSE collected)

\* C32: in a UsersCollector, for every user id whose statistics are cached,
\* exactly three search requests were made, one for each count (requested,
\* assigned, solved) and in that order, however often the id was listed; each
\* count of the cached triple is what its request returned, or 0 when that
\* request failed; and every collected record of the user carries the cached
\* triple. For a user whose statistics are in the making at most one request
\* per count was made.
C32_ThreeSearchesPerUser ==
    collector = "users" =>
        /\ \A u \in DOMAIN caches["user_stats_cache"] :
              /\ Cardinality(SearchesFor(u)) = 3
              /\ \A k \in 1..3 :
                    \E i \in SearchesFor(u) :
                        /\ lookups[i].at = k
                        /\ Cardinality({j \in SearchesFor(u) : j < i}) = k - 1
                        /\ caches["user_stats_cache"][u][StatKeys[k]] =
                             (IF lookups[i].ok THEN Answer("search", u) ELSE 0)
              /\ \A e \in UsersOut :
                    e.rec.id = u => e.derived["statistics"] = caches["user_stats_cache"][u]
        /\ \A i, j \in DOMAIN lookups :
              (/\ lookups[i].endpoint = "search" /\ lookups[j].endpoint = "search"
               /\ lookups[i].id = lookups[j].id /\ lookups[i].at = lookups[j].at) => i = j

\* C32 happens: a user was listed twice; the second of its three searches
\* failed, and both records carry the triple with that count at 0.
C32_Witness ==
    /\ collector = "users"
    /\ cpc = "done"
    /\ Len(listed) = 2
    /\ listed[1].rec.id = listed[2].rec.id
    /\ \E i \in SearchesFor(listed[1].rec.id) : lookups[i].at = 2 /\ ~lookups[i].ok
    /\ Cardinality(UsersOut) = 1
    /\ \A e \in UsersOut :
          e.derived["statistics"] =
            [tickets_requested |-> 1, tickets_assigned |-> 0, tickets_solved |-> 1]


\* The collected sections with the id an article refers to.
SectionsOf(article) ==
    {s \in ElementsOf(returned["sections"]) : s.rec.id = GetOr(article.rec, "section_id", 0)}

\* C33: every article KnowledgeBaseCollector.collect_all returns has the keys
\* author_info, section_info and category_info; section_info is the collected
\* section with the article's section_id and category_info is that section's
\* category, and each is the empty object when the record it refers to was not
\* collected.
C33_ArticleKeys ==
    (collector = "knowledge_base" /\ cpc = "done") =>
        \A a \in ElementsOf(returned["articles"]) :
            /\ {"author_info", "section_info", "category_info"} \subseteq DOMAIN a.derived
            /\ IF SectionsOf(a) = {}
               THEN a.derived["section_info"] = EmptyObject
               ELSE a.derived["section_info"] \in SectionsOf(a)
            /\ a.derived["category_info"] =
                 (IF SectionsOf(a) = {} THEN EmptyObject
                  ELSE a.derived["section_info"].derived["category_info"])

\* The requests a collector has made for user u.
UserRequests(u) ==
    {i \in DOMAIN lookups : lookups[i].endpoint = "users" /\ lookups[i].id = u}

\* C34: the caches belong to one collector. In a TicketsCollector and in a
\* KnowledgeBaseCollector the users cache holds exactly the users this
\* collector has itself requested, one request each, whatever the collectors
\* before it have requested: a user the TicketsCollector has resolved is
\* requested again, once, when the KnowledgeBaseCollector resolves it.
C34_CachesPerCollector ==
    collector \in {"tickets", "knowledge_base"} =>
        /\ DOMAIN caches["users_cache"] = UsersAsked
        /\ \A u \in UsersAsked : Cardinality(UserRequests(u)) = 1
        /\ \A i \in DOMAIN resolutions :
              (resolutions[i].via = "users" /\ resolutions[i].id # 0) =>
                  resolutions[i].id \in UsersAsked

\* C34 happens: the TicketsCollector and then the KnowledgeBaseCollector have
\* each resolved user 10, with one request in each.
C34_Witness ==
    /\ collector = "knowledge_base"
    /\ cpc = "done"
    /\ Len(all_data) >= 1
    /\ all_data[1].collector = "tickets"
    /\ 10 \in all_data[1].asked
    /\ Cardinality(UserRequests(10)) = 1
    /\ \E a \in ElementsOf(returned["articles"]) : a.rec.author_id = 10


\* ------------------------------------------ claims: collectors, the filters

\* A macro whose active flag is false, a group whose deleted flag is true.
Flagged(rec) ==
    IF collector = "macros"
    THEN "active" \in DOMAIN rec /\ rec.active = FALSE
    ELSE "deleted" \in DOMAIN rec /\ rec.deleted = TRUE

\* The collector's filter is on.
FilterOn == IF collector = "macros" THEN args.active_only ELSE ~args.include_deleted

\* C35: in a MacrosCollector and a GroupsCollector with the filter on
\* (active_only=True, include_deleted=False) no flagged record (an inactive
\* macro, a deleted group) is collected or returned and no enrichment request
\* is made for one; after a listing answered to its end the result is the
\* yielded records without the flagged ones, in order, and with the filter off
\* it is all the yielded records.
C35_FiltersExcludeFlagged ==
    collector \in {"macros", "groups"} =>
        /\ FilterOn =>
              /\ \A e \in AllEnriched : ~Flagged(e.rec)
              /\ \A i \in DOMAIN lookups :
                    lookups[i].endpoint # "listing" => ~Flagged(listed[lookups[i].record].rec)
        /\ (cpc = "done" /\ ListingAnswered) =>
              RecordsOf(returned) =
                 (IF FilterOn THEN SelectSeq(ListedRecords, LAMBDA r : ~Flagged(r))
                  ELSE ListedRecords)

\* C35 happens: a GroupsCollector without deleted groups was handed a deleted
\* group and a group without the flag, returned the second only and asked for
\* the members of that one only.
C35_Witness ==
    /\ collector = "groups"
    /\ ~args.include_deleted
    /\ cpc = "done"
    /\ Len(listed) = 2
    /\ Flagged(listed[1].rec)
    /\ "deleted" \notin DOMAIN listed[2].rec
    /\ Len(returned) = 1
    /\ \E i \in DOMAIN lookups : lookups[i].endpoint = "group_memberships"


\* ------------------------------------------ claims: collectors, the users

\* A user whose role is admin or agent.
IsAgent(rec) == "role" \in DOMAIN rec /\ rec.role \in {"admin", "agent"}

\* C36: when UsersCollector.collect_all returns after a listing answered to
\* its end, the result is a partition of the yielded users by role class:
\* under 'agents' are the yielded users whose role is admin or agent, under
\* 'end-users' all the others, those without a role among them, each list in
\* fetch order, and every yielded user is in the result exactly once (a user
\* the listing yielded twice, twice).
C36_PartitionByRole ==
    (collector = "users" /\ cpc = "done" /\ ListingAnswered) =>
        /\ DOMAIN returned \subseteq {"agents", "end-users"}
        /\ RecordsOf(GetOr(returned, "agents", <<>>)) =
             SelectSeq(ListedRecords, LAMBDA r : IsAgent(r))
        /\ RecordsOf(GetOr(returned, "end-users", <<>>)) =
             SelectSeq(ListedRecords, LAMBDA r : ~IsAgent(r))
        /\ Len(GetOr(returned, "agents", <<>>)) + Len(GetOr(returned, "end-users", <<>>))
             = Len(listed)

\* C36 happens: an agent and a user without a role were yielded and returned,
\* one under each key.
C36_Witness ==
    /\ collector = "users"
    /\ cpc = "done"
    /\ ListingAnswered
    /\ Len(listed) = 2
    /\ GetOr(listed[1].rec, "role", "") = "agent"
    /\ "role" \notin DOMAIN listed[2].rec
    /\ DOMAIN returned = {"agents", "end-users"}
    /\ returned["end-users"][1].rec = listed[2].rec


\* ------------------------------------------- claims: paginator, the errors

\* The records of the pages 1..k, in page order.
RECURSIVE RecordsTo(_)
RecordsTo(k) == IF k = 0 THEN <<>> ELSE RecordsTo(k - 1) \o PageItems(pages[k].fields)

\* C37: when the request for page k of get_paginated has failed with an API
\* error, the generator has raised after yielding exactly the records of the
\* pages 1..k-1, and from then on, however often it is asked for a next
\* record, it sends no request and yields nothing.
C37_RaisesAfterEarlierPages ==
    /\ [](ppc = "raised" =>
            /\ requests # <<>>
            /\ yielded = RecordsTo(Len(requests) - 1))
    /\ [][ppc = "raised" =>
            /\ ppc' = "raised"
            /\ requests' = requests
            /\ yielded' = yielded]_vars

\* C37 happens: the request for the second page failed after the record(s) of
\* the first were yielded, and the consumer asks again.
C37_Witness ==
    /\ ppc = "raised"
    /\ Len(requests) = 2
    /\ yielded # <<>>
    /\ yielded = RecordsTo(1)
    /\ demanded


\* The rate-limit sleeps performed in attempt n.
RateLimitSleeps(n) == SelectSeq(sleeps, LAMBDA s : s.kind = "rate_limit" /\ s.attempt = n)

\* C38: for each attempt of a call wrapped with __call__ whose outcome is a
\* 429, returned as a response or raised as an HTTPError, the wrapper has
\* slept for the rate limit exactly once, for Retry-After seconds (60 without
\* the header).
C38_OneRateLimitSleep ==
    decorator = "__call__" =>
        \A n \in DOMAIN outcomes :
            (outcomes[n].status_code = 429 /\ outcomes[n].cls \in {"Response", "HTTPError"}) =>
                /\ Len(RateLimitSleeps(n)) = 1
                /\ RateLimitSleeps(n)[1].secs = RetryAfter(outcomes[n])


\* -------------------------------------- claims: RateLimiter, termination

\* C39: with a clock that advances, every call of wait_if_needed returns and
\* releases the lock: a thread is inside the call exactly while it holds the
\* lock, the lock is free again after every acquisition, and no caller stays
\* blocked: all the calls the threads make, MaxCalls of them and concurrent
\* ones at a full queue among them, have returned in the end with the lock
\* free.
C39_EveryCallReturns ==
    /\ [](\A t \in Threads : (lpc[t] # "idle") <=> (lock = t))
    /\ (lock # 0) ~> (lock = 0)
    /\ <>[](Len(calls) = MaxCalls /\ lock = 0)

\* C39 happens: with a limit of one, a second thread's call has returned
\* after a sleep that began within the minute of the first thread's call.
C39_Witness ==
    /\ requests_per_minute = 1
    /\ lock = 0
    /\ Len(calls) >= 2
    /\ calls[1].thread # calls[2].thread
    /\ calls[2].slept > 0
    /\ calls[2].released >= calls[1].now + Window

====
